---- MODULE Spec2Model ----
(***************************************************************************)
(* Silent Payment (BIP-352) detection engine: the UTXO repository, the     *)
(* transaction processor, the indexer client's block scan and the wallet   *)
(* that drives them.                                                       *)
(***************************************************************************)
EXTENDS Integers, Sequences, FiniteSets, TLC

VARIABLES
  utxos,              \* UTXORepository.utxos: the runtime list
  utxosSerializable,  \* UTXORepository.utxosSerializable: the persisted form
  call,               \* the last repository call: its name, argument, return value
  lastScannedBlock,   \* HDSilentPaymentsWallet.lastScannedBlock (ScanProgress)
  pc,                 \* where the scan invocation stands
  scan,               \* the invocation's arguments and locals
  requested,          \* the heights it has asked the indexer for, in order
  lastResp,           \* the indexer's answer to the one before the pending one
  skipped,            \* the heights it has logged as failed and skipped
  outcome,            \* how the invocation ended: "returned" or "threw"
  handled,            \* the last run of the per-block handler: what it processed
  inFlight,           \* the heights asked for and not yet answered
  script,             \* test-scan-tweaks.js: its position and its locals
  indexed,            \* the last block the indexer of that run has indexed
  processCall,        \* the last call of TransactionProcessor.process
  conc,               \* two scans running at once on the wallet: their loops
  keyDerivation,      \* the SilentPaymentKeyDerivation instances: seed and caches
  keyCall,            \* the last call on one of them and what it returned
  defaultIndexer,     \* SilentPaymentIndexer.ts defaultIndexer: TRUE when not null
  cachedSeed,         \* the seed the wallet hands to its key derivation
  stream,             \* a range scanned in bulk and then with a caller's handler
  twin,               \* two wallets scanning one range, one in each direction
  compat,             \* the legacy wallet and the composed one, called in step
  persist,            \* a wallet, the wallet restored from its JSON, the last call
  registry            \* the module's default indexer and the calls made on it

otherVars == <<twin, compat, persist, registry>>
repoVars == <<utxos, utxosSerializable, call>>
scanVars == <<lastScannedBlock, pc, scan, requested, lastResp, skipped, outcome,
              handled, inFlight>>
scriptVars == <<script, indexed>>
keyVars == <<keyDerivation, keyCall>>
configVars == <<defaultIndexer, cachedSeed>>
restVars == <<processCall, conc, keyDerivation, keyCall, defaultIndexer, cachedSeed,
              stream, otherVars>>
vars == <<utxos, utxosSerializable, call,
          lastScannedBlock, pc, scan, requested, lastResp, skipped, outcome,
          handled, inFlight, script, indexed, processCall, conc,
          keyDerivation, keyCall, defaultIndexer, cachedSeed, stream, otherVars>>

-----------------------------------------------------------------------------
(* Bounds *)

\* Longest list handed to loadFromSerializable, and the most records stored
\* by direct repository calls.
MaxLen == 2

\* Highest block height the indexer serves.
MaxTip == 4

\* Largest maxBlocks a backward scan is asked for.
MaxBlocks == 3

\* Most outputs of a transaction handed to process() on its own.
MaxOutputs == 2

\* Number of seeds wallets are created from.
MaxSeeds == 2

\* The calls made on the module's default indexer in one run.
MaxCalls == 4

\* Most blocks the indexer has indexed from START_BLOCK on when the
\* scan-tweak script runs.
MaxIndexed == 3

-----------------------------------------------------------------------------
(* Bytes and their hex encoding: Buffer.from(bytes).toString('hex') and     *)
(* Buffer.from(hex, 'hex')                                                  *)

HexDigits == <<"0", "1", "2", "3", "4", "5", "6", "7",
               "8", "9", "a", "b", "c", "d", "e", "f">>

\* The value of each character the decoder takes for a hex digit (upper case
\* is accepted by the decoder, never produced by the encoder).
HexValues ==
  [c \in {HexDigits[i] : i \in 1..16} \cup {"A", "B", "C", "D", "E", "F"} |->
     IF \E i \in 1..16 : HexDigits[i] = c
       THEN (CHOOSE i \in 1..16 : HexDigits[i] = c) - 1
     ELSE IF c = "A" THEN 10
     ELSE IF c = "B" THEN 11
     ELSE IF c = "C" THEN 12
     ELSE IF c = "D" THEN 13
     ELSE IF c = "E" THEN 14
     ELSE 15]

\* The value of one hex character, -1 when it is none.
HexVal(c) == IF c \in DOMAIN HexValues THEN HexValues[c] ELSE -1

RECURSIVE ToHexUnpadded(_)
\* A hex encoder that writes a byte below 16 as one digit.
ToHexUnpadded(bytes) ==
  IF bytes = <<>> THEN <<>>
  ELSE (IF Head(bytes) < 16 THEN <<>> ELSE <<HexDigits[(Head(bytes) \div 16) + 1]>>)
         \o <<HexDigits[(Head(bytes) % 16) + 1]>> \o ToHexUnpadded(Tail(bytes))

RECURSIVE ToHex(_)
\* Buffer.from(bytes).toString('hex'): two lower-case digits per byte.
ToHex(bytes) ==
  IF bytes = <<>> THEN <<>>
  ELSE <<HexDigits[(Head(bytes) \div 16) + 1], HexDigits[(Head(bytes) % 16) + 1]>>
         \o ToHex(Tail(bytes))

\* Buffer.from(hex, 'hex'): one byte per pair of digits, stopping at the first
\* pair that is not hex; a trailing single character is dropped.
DecodeHex(hex) ==
  LET pairs == Len(hex) \div 2
      bad == {i \in 1..pairs : HexVal(hex[2 * i - 1]) < 0 \/ HexVal(hex[2 * i]) < 0}
      n == IF bad = {} THEN pairs
           ELSE (CHOOSE i \in bad : \A j \in bad : i <= j) - 1
  IN  [i \in 1..n |-> HexVal(hex[2 * i - 1]) * 16 + HexVal(hex[2 * i])]

\* A scan tweak of n bytes, as the hex string the indexer sends.
TweakHex(n) == [i \in 1..(2 * n) |-> IF i = 2 THEN "2" ELSE "0"]

\* The scan tweaks of the chain, decoded once.
DecodedTweaks == [hex \in {TweakHex(32), TweakHex(33)} |-> DecodeHex(hex)]

\* Buffer.from(hex, 'hex'): the decoding above, looked up for the chain's
\* tweaks and computed for every other string.
FromHex(hex) ==
  IF hex \in DOMAIN DecodedTweaks THEN DecodedTweaks[hex] ELSE DecodeHex(hex)

-----------------------------------------------------------------------------
(* Records *)

BaseFields == {"txid", "vout", "value", "pubKey", "blockHeight", "blockHash", "isSpent"}

\* SilentPaymentUTXO: the base fields and the binary tweak.
MkUTXO(txid, vout, value, pubKey, blockHeight, blockHash, tweak, isSpent) ==
  [txid |-> txid, vout |-> vout, value |-> value, pubKey |-> pubKey,
   blockHeight |-> blockHeight, blockHash |-> blockHash,
   tweak |-> tweak, isSpent |-> isSpent]

\* What a reader of a runtime record sees: a record rebuilt by
\* loadFromSerializable also carries the tweakHex it was spread from.
View(u) ==
  MkUTXO(u.txid, u.vout, u.value, u.pubKey, u.blockHeight, u.blockHash, u.tweak, u.isSpent)

ViewAll(us) == [i \in 1..Len(us) |-> View(us[i])]

-----------------------------------------------------------------------------
(* UTXORepository *)

\* A duplicate test that looks at the transaction id alone.
ExistsByTxid(us, utxo) == \E i \in 1..Len(us) : us[i].txid = utxo.txid

\* utxos.some(u => u.txid === utxo.txid && u.vout === utxo.vout)
Exists(us, utxo) ==
  \E i \in 1..Len(us) : us[i].txid = utxo.txid /\ us[i].vout = utxo.vout

\* The serializable record add() pushes next to the runtime one.
ToSerializable(utxo) ==
  [txid |-> utxo.txid, vout |-> utxo.vout, value |-> utxo.value,
   pubKey |-> utxo.pubKey, blockHeight |-> utxo.blockHeight,
   blockHash |-> utxo.blockHash, tweakHex |-> ToHex(utxo.tweak),
   isSpent |-> utxo.isSpent]

\* {...utxo, tweak: new Uint8Array(Buffer.from(utxo.tweakHex, 'hex'))}
FromSerializable(s) ==
  [f \in (DOMAIN s) \cup {"tweak"} |->
     IF f = "tweak" THEN FromHex(s.tweakHex) ELSE s[f]]

\* An add() that overwrites the stored record of the (txid, vout).
AddUtxosReplace(us, utxo) ==
  IF Exists(us, utxo)
    THEN [i \in 1..Len(us) |->
            IF us[i].txid = utxo.txid /\ us[i].vout = utxo.vout THEN utxo ELSE us[i]]
    ELSE Append(us, utxo)

\* An add() that appends without looking for the (txid, vout).
AddUtxosNoDedup(us, utxo) == Append(us, utxo)

\* The lists after add(utxo).
AddUtxos(us, utxo) == IF Exists(us, utxo) THEN us ELSE Append(us, utxo)

\* An add() that tests the (txid, vout) for the runtime list alone.
AddSerializableAlways(us, ss, utxo) == Append(ss, ToSerializable(utxo))

AddSerializable(us, ss, utxo) ==
  IF Exists(us, utxo) THEN ss ELSE Append(ss, ToSerializable(utxo))

\* add's return value.
AddReturns(us, utxo) == ~Exists(us, utxo)

\* A getAll() that returns the whole list.
GetAllWithSpent(us) == us

\* A getAll() that lists the unspent records newest first.
GetAllNewestFirst(us) ==
  LET kept == SelectSeq(us, LAMBDA u : ~u.isSpent)
  IN  [i \in 1..Len(kept) |-> kept[Len(kept) + 1 - i]]

\* getAll(): utxos.filter(u => !u.isSpent)
GetAll(us) == SelectSeq(us, LAMBDA u : ~u.isSpent)

RECURSIVE Reduce(_, _)
\* reduce((sum, utxo) => sum + utxo.value, acc) over the list, left to right.
Reduce(us, acc) ==
  IF us = <<>> THEN acc ELSE Reduce(Tail(us), acc + Head(us).value)

\* A balance that also counts the spent records.
GetBalanceWithSpent(us) == Reduce(us, 0)

\* getBalance()
GetBalance(us) == Reduce(SelectSeq(us, LAMBDA u : ~u.isSpent), 0)

\* getSerializable(): the list itself.
GetSerializable(ss) == ss

\* loadFromSerializable: `serializable || []` (the argument is a list or
\* null/undefined), then every entry decoded.
OrEmpty(serializable) == IF serializable.isNull THEN <<>> ELSE serializable.items

LoadUtxos(serializable) ==
  LET ss == OrEmpty(serializable)
  IN  [i \in 1..Len(ss) |-> FromSerializable(ss[i])]

-----------------------------------------------------------------------------
(* The records and lists the repository is driven with *)

TxId(h, i) == <<"tx", h, i>>
PubKeyOf(txid, vout) == <<"pk", txid[2], txid[3], vout>>
BlockHashOf(h) == <<"blk", h>>

\* Three outputs: the two versions of the first differ in value, tweak and
\* spent flag, those of the second in the spent flag alone.
Out(h, v, value, tweak, isSpent) ==
  MkUTXO(TxId(h, 1), v, value, PubKeyOf(TxId(h, 1), v), h, BlockHashOf(h), tweak, isSpent)

UTXODomain ==
  { Out(1, 0, 1000, <<0, 171>>, FALSE), Out(1, 0, 2500, <<255, 16>>, TRUE),
    Out(1, 1, 2500, <<0, 171>>, FALSE), Out(1, 1, 2500, <<0, 171>>, TRUE),
    Out(2, 0, 1000, <<255, 16>>, FALSE) }

\* An entry written outside the repository: the tweak of the last record in
\* upper-case hex, which Buffer.from(hex, 'hex') accepts.
UpperCaseEntry ==
  [ToSerializable(Out(2, 0, 1000, <<255, 16>>, FALSE)) EXCEPT
     !.tweakHex = <<"F", "F", "1", "0">>]

\* What loadFromSerializable is given: entries the repository wrote, the last
\* record's in upper case.
SerializableDomain ==
  {ToSerializable(u) : u \in UTXODomain \ {Out(2, 0, 1000, <<255, 16>>, FALSE)}}
    \cup {UpperCaseEntry}

\* All lists over S of length at most n.
SeqUpTo(S, n) == UNION {[1..k -> S] : k \in 0..n}

LoadInputs ==
  {[isNull |-> TRUE, items |-> <<>>]}
    \cup {[isNull |-> FALSE, items |-> l] : l \in SeqUpTo(SerializableDomain, MaxLen)}

-----------------------------------------------------------------------------
(* Repository calls *)

\* What a caller that watches the repository keeps of its last call: the
\* name, the argument, the return value, and for add: `fresh`, whether the
\* record's (txid, vout) was absent before; `again`, whether this add repeats
\* the add just before it (the second of two adds of one record); `n`,
\* getAll().length read before the add, or before the first of the two;
\* `readded`, whether this add follows a clear() and brings a (txid, vout)
\* that was stored before that clear(). For clear, the argument slot holds
\* the records that were stored before it.
NoCall == [op |-> "none", arg |-> <<>>, ret |-> FALSE, n |-> 0,
           fresh |-> FALSE, again |-> FALSE, readded |-> FALSE]

\* Is an output with this (txid, vout) stored?
HasOutpoint(us, txid, vout) ==
  \E i \in 1..Len(us) : <<us[i].txid, us[i].vout>> = <<txid, vout>>

Repeats(utxo) ==
  call.op = "add" /\ ~call.again /\ call.fresh /\ call.arg = utxo

\* repo.add(utxo)
Add(utxo) ==
  /\ Len(utxos) < MaxLen \/ HasOutpoint(utxos, utxo.txid, utxo.vout)
  /\ utxos' = AddUtxos(utxos, utxo)
  /\ utxosSerializable' = AddSerializable(utxos, utxosSerializable, utxo)
  /\ call' = [op |-> "add", arg |-> utxo, ret |-> AddReturns(utxos, utxo),
              n |-> IF Repeats(utxo) THEN call.n ELSE Len(GetAll(utxos)),
              fresh |-> Repeats(utxo) \/ ~HasOutpoint(utxos, utxo.txid, utxo.vout),
              again |-> Repeats(utxo),
              readded |-> call.op = "clear" /\ HasOutpoint(call.arg, utxo.txid, utxo.vout)]
  /\ UNCHANGED <<scanVars, scriptVars, restVars>>

\* repo.loadFromSerializable(serializable)
LoadFromSerializable(serializable) ==
  /\ utxosSerializable' = OrEmpty(serializable)
  /\ utxos' = LoadUtxos(serializable)
  /\ call' = [NoCall EXCEPT !.op = "load"]
  /\ UNCHANGED <<scanVars, scriptVars, restVars>>

\* repo.loadFromSerializable(repo.getSerializable()); the caller keeps what
\* getAll() and getBalance() returned before it.
Reload ==
  /\ utxosSerializable' = OrEmpty([isNull |-> FALSE, items |-> GetSerializable(utxosSerializable)])
  /\ utxos' = LoadUtxos([isNull |-> FALSE, items |-> GetSerializable(utxosSerializable)])
  /\ call' = [NoCall EXCEPT !.op = "reload",
                            !.arg = [unspent |-> ViewAll(GetAll(utxos)),
                                     balance |-> GetBalance(utxos)]]
  /\ UNCHANGED <<scanVars, scriptVars, restVars>>

\* repo.loadFromSerializable(list) where list is getSerializable() with the
\* isSpent flag of its entry i, an unspent one, set to true; the caller keeps
\* what getAll() and getBalance() returned before it, the entry and the
\* number of records stored.
ReloadSpent(i) ==
  /\ i \in 1..Len(utxosSerializable)
  /\ ~utxosSerializable[i].isSpent
  /\ LET list == [GetSerializable(utxosSerializable) EXCEPT ![i].isSpent = TRUE]
     IN  /\ utxosSerializable' = OrEmpty([isNull |-> FALSE, items |-> list])
         /\ utxos' = LoadUtxos([isNull |-> FALSE, items |-> list])
  /\ call' = [NoCall EXCEPT !.op = "reloadSpent", !.n = i,
                            !.arg = [unspent |-> ViewAll(GetAll(utxos)),
                                     balance |-> GetBalance(utxos),
                                     entry |-> utxosSerializable[i],
                                     length |-> Len(utxos)]]
  /\ UNCHANGED <<scanVars, scriptVars, restVars>>

\* repo.getAll(), repo.getBalance(), repo.getSerializable(): the caller keeps
\* the result.
Query(op) ==
  /\ call' = [NoCall EXCEPT !.op = op,
                            !.arg = CASE op = "getAll" -> ViewAll(GetAll(utxos))
                                      [] op = "getBalance" -> <<GetBalance(utxos)>>
                                      [] OTHER -> GetSerializable(utxosSerializable)]
  /\ UNCHANGED <<utxos, utxosSerializable, scanVars, scriptVars, restVars>>

\* A clear() that empties the serializable list alone.
ClearSerializableOnly ==
  /\ utxos' = utxos
  /\ utxosSerializable' = <<>>
  /\ call' = [NoCall EXCEPT !.op = "clear", !.arg = ViewAll(utxos)]
  /\ UNCHANGED <<scanVars, scriptVars, restVars>>

\* repo.clear()
Clear ==
  /\ utxos' = <<>>
  /\ utxosSerializable' = <<>>
  /\ call' = [NoCall EXCEPT !.op = "clear", !.arg = ViewAll(utxos)]
  /\ UNCHANGED <<scanVars, scriptVars, restVars>>

\* No scan running. A running scan keeps its arguments and locals:
\* `initialCount` is the wallet's local of that name and `result` the number
\* it returns; `initialLength` is the number of records stored when the scan
\* started; `error` is what made it throw, "notInitialized" for
\* getDefaultIndexer's error and "transport" for an error of the HTTP client.
NoScan == [kind |-> "none", maxBlocks |-> 0, startHeight |-> 0,
           endHeight |-> 0, height |-> 0, initialCount |-> 0, initialLength |-> 0,
           result |-> 0, error |-> "none"]

\* No block handled yet: the heights, the transactions passed to process() and
\* the records passed to add().
NoBlock == [height |-> -1, processed |-> <<>>, added |-> <<>>]

\* The SilentPaymentKeyDerivation objects of two wallets, or of one wallet
\* before and after a restart.
Instances == {"a", "b"}

\* An instance not yet constructed: seed 0, null caches; `derivations` counts
\* the runs of the derivation from the seed since the instance was
\* constructed or last cleared.
NoInstance == [seed |-> 0, scanKey |-> <<>>, spendKey |-> <<>>,
               silentPaymentAddress |-> <<>>, derivations |-> 0]

\* The last call on an instance, what it returned, and in `prev` the call
\* before it with its instance.
NoKeyCall == [op |-> "none", instance |-> "a", value |-> <<>>,
              prev |-> <<"none", "a">>]

\* One of two scans running at once: where its loop stands and the heights
\* whose fetch has succeeded.
IdleScan == [pc |-> "idle", height |-> 0, endHeight |-> 0, fetched |-> {}]

NoConc == [backward |-> IdleScan, forward |-> IdleScan]

\* No scan of the indexer client running on its own. A range is scanned with
\* scanBackwards and then with scanBackwardsWithCallback: `pc` is "bulk" while
\* the first fetches, "returned" when it has returned `allTransactions`,
\* "callback" while the second fetches and "done" when it has returned;
\* `served` keeps what the indexer answered for each height, `requested` the
\* heights the running call has asked for, and `batches` what the handler was
\* given: the height, the transactions, the number of requests sent by then
\* and what the handler did with them.
NoStream == [pc |-> "idle", maxBlocks |-> 0, startHeight |-> 0, endHeight |-> 0,
             height |-> 0, served |-> <<>>, requested |-> <<>>,
             allTransactions |-> <<>>, batches |-> <<>>]

\* One of two wallets that scan the same range: where its loop stands, its
\* repository (`u` the runtime list, `s` the serializable one) and its
\* lastScannedBlock.
TwinWallet(pc_, height, endHeight, u, s, last) ==
  [pc |-> pc_, height |-> height, endHeight |-> endHeight,
   u |-> u, s |-> s, last |-> last]

\* Two new wallets, no scan running.
NoTwin == [backward |-> TwinWallet("idle", 0, 0, <<>>, <<>>, 0),
           forward |-> TwinWallet("idle", 0, 0, <<>>, <<>>, 0)]

\* The legacy HDSilentPaymentsWallet and the composed one before they are
\* created: no secret, null caches. `last` is the call made on both, what
\* each returned, and the call before it.
NoCompat ==
  [legacy |-> [secret |-> <<>>, cachedSeed |-> 0, scanKey |-> <<>>, spendKey |-> <<>>,
               silentPaymentAddress |-> <<>>],
   wallet |-> [secret |-> <<>>, cachedSeed |-> 0, keyDerivation |-> NoInstance,
               transactionProcessor |-> FALSE],
   last |-> [op |-> "none", prev |-> "none", legacy |-> <<>>, wallet |-> <<>>]]

\* A wallet with its repository and progress: `w` holds the secret, the
\* cached seed and the services; `parsed` tells that the services are the
\* objects JSON.parse built, without the methods of their classes.
PersistWallet(secret) ==
  [w |-> [secret |-> secret, cachedSeed |-> 0, keyDerivation |-> NoInstance,
          transactionProcessor |-> FALSE],
   parsed |-> FALSE, u |-> <<>>, s |-> <<>>, lastScannedBlock |-> 0]

\* No wallet created; `last` is the last call, the wallet it was made on and
\* what it returned.
NoPersist == [original |-> PersistWallet(<<>>), restored |-> PersistWallet(<<>>),
              last |-> [op |-> "none", on |-> "original", value |-> <<>>, height |-> 0]]

\* defaultIndexer = null
NoIndexer == [id |-> 0, config |-> <<>>]

\* The module's defaultIndexer before any call; `log` is the calls made, `last`
\* the last one and what it returned.
NoRegistry ==
  [defaultIndexer |-> NoIndexer, log |-> <<>>, last |-> [op |-> "none", value |-> <<>>]]

\* process() not called: `pc` is "none", then "called" with the argument in
\* `tx`, then "returned" with what the call did.
NoProcess == [pc |-> "none", tx |-> <<>>, matched |-> <<>>, called |-> FALSE,
              logged |-> "none", threw |-> FALSE]

\* The scan-tweak script before it is run.
NotRun == [pc |-> "start", height |-> 0, lastBlock |-> 0, retry |-> FALSE,
           scanTweaks |-> <<>>, blocksWithTweaks |-> 0, totalTweaks |-> 0,
           saved |-> <<>>]

\* A new wallet: an empty repository, lastScannedBlock = 0, no scan running.
NewWallet ==
  /\ utxos = <<>>
  /\ utxosSerializable = <<>>
  /\ call = NoCall
  /\ lastScannedBlock = 0
  /\ pc = "idle"
  /\ scan = NoScan
  /\ requested = <<>>
  /\ lastResp = "none"
  /\ skipped = <<>>
  /\ outcome = "none"
  /\ handled = NoBlock
  /\ inFlight = {}
  /\ script = NotRun
  /\ indexed = 0
  /\ conc = NoConc
  /\ keyDerivation = [i \in Instances |-> NoInstance]
  /\ keyCall = NoKeyCall
  /\ stream = NoStream
  /\ twin = NoTwin
  /\ compat = NoCompat
  /\ persist = NoPersist
  /\ registry = NoRegistry

\* A wallet created from a mnemonic in an application that has called
\* initializeIndexer(config) at its start.
InitWallet ==
  /\ NewWallet
  /\ defaultIndexer = TRUE
  /\ cachedSeed = "wellFormed"

Init == InitWallet /\ processCall = NoProcess

InitRepo == Init

NextRepo ==
  \/ \E utxo \in UTXODomain : Add(utxo)
  \/ \E serializable \in LoadInputs : LoadFromSerializable(serializable)
  \/ Reload
  \/ \E i \in 1..MaxLen : ReloadSpent(i)
  \/ \E op \in {"getAll", "getBalance", "getSerializable"} : Query(op)
  \/ Clear

SpecRepo == InitRepo /\ [][NextRepo]_vars

-----------------------------------------------------------------------------
(* The chain the indexer serves *)

\* An output key whose bytes are not a point of the curve.
MalformedKey(txid, vout) == <<"bad", txid[2], txid[3], vout>>

IndexerOutput(txid, vout, value, isSpent) ==
  [transactionId |-> txid, vout |-> vout, pubKey |-> PubKeyOf(txid, vout),
   value |-> value, isSpent |-> isSpent]

\* IndexerTransactionData
IndexerTx(h, i, scanTweak, outputs) ==
  [id |-> TxId(h, i), blockHeight |-> h, blockHash |-> BlockHashOf(h),
   scanTweak |-> scanTweak, outputs |-> outputs]

\* The transactions of the block at height h. Heights repeat four shapes:
\* an empty block; a payment to the wallet beside a transaction with no
\* outputs and one whose tweak is for another wallet; a transaction without
\* scan tweak and a payment to the wallet that is already spent; a
\* transaction with a 32-byte tweak, one whose output key is not a curve
\* point, and a payment of two outputs.
Chain(h) ==
  CASE h % 4 = 0 -> <<>>
    [] h % 4 = 1 ->
         << IndexerTx(h, 1, TweakHex(33),
              << IndexerOutput(TxId(h, 1), 0, 1000, FALSE),
                 IndexerOutput(TxId(h, 1), 1, 2500, FALSE) >>),
            IndexerTx(h, 2, TweakHex(33), <<>>),
            IndexerTx(h, 3, TweakHex(33),
              << IndexerOutput(TxId(h, 3), 0, 1000, FALSE) >>) >>
    [] h % 4 = 2 ->
         << IndexerTx(h, 1, <<>>,
              << IndexerOutput(TxId(h, 1), 0, 1000, FALSE) >>),
            IndexerTx(h, 2, TweakHex(33),
              << IndexerOutput(TxId(h, 2), 0, 2500, TRUE) >>) >>
    [] OTHER ->
         << IndexerTx(h, 1, TweakHex(32),
              << IndexerOutput(TxId(h, 1), 0, 1000, FALSE) >>),
            IndexerTx(h, 3, TweakHex(33),
              << [IndexerOutput(TxId(h, 3), 0, 1000, FALSE)
                    EXCEPT !.pubKey = MalformedKey(TxId(h, 3), 0)] >>),
            IndexerTx(h, 2, TweakHex(33),
              << IndexerOutput(TxId(h, 2), 0, 1000, FALSE),
                 IndexerOutput(TxId(h, 2), 1, 2500, FALSE) >>) >>

\* The output keys that are the wallet's spend key plus a tweak of the
\* transaction's shared secret, and that tweak: what the curve arithmetic of
\* scanOutputsWithTweak decides.
OwnedKey(pubKey) ==
  <<pubKey[2] % 4, pubKey[3], pubKey[4]>>
    \in {<<1, 1, 0>>, <<2, 1, 0>>, <<2, 2, 0>>, <<3, 1, 0>>, <<3, 2, 0>>, <<3, 2, 1>>}

OutputTweak(pubKey) == <<pubKey[2] % 256, (16 * pubKey[3] + pubKey[4]) % 256>>

-----------------------------------------------------------------------------
(* TransactionProcessor *)

RECURSIVE MatchEntries(_, _)
\* scanOutputsWithTweak: a Map from the hex of each matched output key to its
\* tweak, one entry per key, in the order of the keys given.
MatchEntries(outputPubKeys, seen) ==
  IF outputPubKeys = <<>> THEN <<>>
  ELSE LET key == Head(outputPubKeys)
           xOnly == Tail(key)
       IN  IF OwnedKey(xOnly) /\ key \notin seen
             THEN <<[key |-> key, tweak |-> OutputTweak(xOnly)]>>
                    \o MatchEntries(Tail(outputPubKeys), seen \cup {key})
             ELSE MatchEntries(Tail(outputPubKeys), seen)

ScanOutputsWithTweak(outputPubKeys) == MatchEntries(outputPubKeys, {})

\* tx.outputs.find(o => o.pubKey === xOnlyPubKey): the first such output, or none.
FindOutput(outputs, xOnlyPubKey) ==
  LET at == {i \in 1..Len(outputs) : outputs[i].pubKey = xOnlyPubKey}
  IN  IF at = {} THEN <<>>
      ELSE <<outputs[CHOOSE i \in at : \A j \in at : i <= j]>>

\* A loop that emits a record for every output of the transaction.
EmitEveryOutput(tx, entries) ==
  [k \in 1..Len(tx.outputs) |->
     MkUTXO(tx.txid, tx.outputs[k].vout, tx.outputs[k].value, tx.outputs[k].pubKey,
            tx.blockHeight, tx.blockHash, <<0, 0>>, tx.outputs[k].isSpent)]

RECURSIVE EmitMatches(_, _)
\* The loop over matchedOutputs.entries().
EmitMatches(tx, entries) ==
  IF entries = <<>> THEN <<>>
  ELSE LET found == FindOutput(tx.outputs, Tail(Head(entries).key))
       IN  (IF found = <<>> THEN <<>>
            ELSE <<MkUTXO(tx.txid, found[1].vout, found[1].value, found[1].pubKey,
                          tx.blockHeight, tx.blockHash, Head(entries).tweak,
                          found[1].isSpent)>>)
             \o EmitMatches(tx, Tail(entries))

\* tx.outputs.map(output => Buffer.from('02' + output.pubKey, 'hex'))
OutputPubKeys(tx) == [i \in 1..Len(tx.outputs) |-> <<"02">> \o tx.outputs[i].pubKey]

\* scanOutputsWithTweak throws when a key it is given is not a curve point.
Throws(outputPubKeys) ==
  \E i \in 1..Len(outputPubKeys) : outputPubKeys[i][2] # "pk"

\* A process() that tests the length of the hex string and not of the bytes
\* decoded from it.
ProcessTraceByHexLength(tx) ==
  IF cachedSeed = "malformed"
    THEN [matched |-> <<>>, called |-> FALSE, logged |-> "error", threw |-> FALSE]
  ELSE IF Len(tx.scanTweak) # 66
    THEN [matched |-> <<>>, called |-> FALSE, logged |-> "warn", threw |-> FALSE]
  ELSE IF Throws(OutputPubKeys(tx))
    THEN [matched |-> <<>>, called |-> TRUE, logged |-> "error", threw |-> FALSE]
  ELSE [matched |-> EmitMatches(tx, ScanOutputsWithTweak(OutputPubKeys(tx))),
        called |-> TRUE, logged |-> "none", threw |-> FALSE]

\* TransactionProcessor.process(tx): the list returned, whether
\* scanOutputsWithTweak was called, what was logged (the warning of the length
\* test, the error of the catch), and whether process itself threw. The keys
\* are read first, inside the try block: with a malformed seed bip32.fromSeed
\* throws in deriveKeys() and the catch logs the error.
ProcessTrace(tx) ==
  IF cachedSeed = "malformed"
    THEN [matched |-> <<>>, called |-> FALSE, logged |-> "error", threw |-> FALSE]
  ELSE IF Len(FromHex(tx.scanTweak)) # 33
    THEN [matched |-> <<>>, called |-> FALSE, logged |-> "warn", threw |-> FALSE]
  ELSE IF Throws(OutputPubKeys(tx))
    THEN [matched |-> <<>>, called |-> TRUE, logged |-> "error", threw |-> FALSE]
  ELSE [matched |-> EmitMatches(tx, ScanOutputsWithTweak(OutputPubKeys(tx))),
        called |-> TRUE, logged |-> "none", threw |-> FALSE]

\* The return value of TransactionProcessor.process(tx).
Process(tx) == ProcessTrace(tx).matched

\* The output keys of the transactions handed to process() on its own: two
\* keys of the wallet, a key of another wallet, bytes that are no curve point.
ProcessKeys ==
  {PubKeyOf(TxId(3, 2), 0), PubKeyOf(TxId(3, 2), 1), PubKeyOf(TxId(3, 2), 2),
   MalformedKey(TxId(3, 2), 0)}

\* Output lists of up to MaxOutputs outputs: the output at position k has
\* vout k - 1 and any of the keys, so two outputs may carry one key.
ProcessOutputs ==
  {[k \in 1..Len(ks) |->
      [transactionId |-> TxId(3, 2), vout |-> k - 1, pubKey |-> ks[k][1],
       value |-> 1000 * k, isSpent |-> ks[k][2]]] :
    ks \in SeqUpTo(ProcessKeys \X BOOLEAN, MaxOutputs)}

\* Scan tweaks as the indexer may send them: 33 bytes, 32, 34, none, 33 bytes
\* and a stray character, 66 characters of which one is not hex.
ScanTweaks ==
  {TweakHex(33), TweakHex(32), TweakHex(34), <<>>, TweakHex(33) \o <<"0">>,
   [TweakHex(33) EXCEPT ![5] = "z"]}

\* IndexerTransaction values handed to process().
ProcessInputs ==
  {[txid |-> TxId(3, 2), blockHeight |-> 3, blockHash |-> BlockHashOf(3),
    scanTweak |-> t, outputs |-> os] : t \in ScanTweaks, os \in ProcessOutputs}

\* transactionProcessor.process(tx) runs and returns.
ProcessTx ==
  /\ processCall.pc = "called"
  /\ processCall' =
       LET trace == ProcessTrace(processCall.tx)
       IN  [pc |-> "returned", tx |-> processCall.tx, matched |-> trace.matched,
            called |-> trace.called, logged |-> trace.logged, threw |-> trace.threw]
  /\ UNCHANGED <<repoVars, scanVars, scriptVars, conc, keyVars, configVars, stream, otherVars>>

\* process() is called with any of the transactions.
InitProcess ==
  /\ InitWallet
  /\ processCall \in {[NoProcess EXCEPT !.pc = "called", !.tx = tx] : tx \in ProcessInputs}

NextProcess == ProcessTx

SpecProcess == InitProcess /\ [][NextProcess]_vars

-----------------------------------------------------------------------------
(* HDSilentPaymentsWallet.processAndAddTransactions *)

\* The IndexerTransaction built from one transaction of the response.
ToIndexerTransaction(tx, blockHeight) ==
  [blockHeight |-> IF tx.blockHeight # 0 THEN tx.blockHeight ELSE blockHeight,
   blockHash |-> tx.blockHash, txid |-> tx.id,
   scanTweak |-> tx.scanTweak, outputs |-> tx.outputs]

\* A guard that lets every transaction through.
IsScannableAlways(tx) == TRUE

\* tx.scanTweak && tx.outputs && tx.outputs.length > 0
IsScannable(tx) == tx.scanTweak # <<>> /\ Len(tx.outputs) > 0

\* Only the first match of a transaction is committed.
AddFirst(repo, matched) ==
  IF matched = <<>> THEN repo
  ELSE [repo EXCEPT !.u = AddUtxos(repo.u, Head(matched)),
                    !.s = AddSerializable(repo.u, repo.s, Head(matched)),
                    !.added = Append(repo.added, Head(matched))]

RECURSIVE AddAll(_, _)
\* for (const utxo of matchedUTXOs) this.utxoRepository.add(utxo), on the
\* pair of lists the repository holds; `added` lists the records handed to
\* add().
AddAll(repo, matched) ==
  IF matched = <<>> THEN repo
  ELSE AddAll([repo EXCEPT !.u = AddUtxos(repo.u, Head(matched)),
                           !.s = AddSerializable(repo.u, repo.s, Head(matched)),
                           !.added = Append(repo.added, Head(matched))],
              Tail(matched))

RECURSIVE ProcessAllAborting(_, _, _)
\* A loop that an error of the matching primitive ends: the exception leaves
\* process() and the block's remaining transactions are not looked at.
ProcessAllAborting(repo, transactions, blockHeight) ==
  IF transactions = <<>> THEN repo
  ELSE IF IsScannable(Head(transactions))
          /\ ProcessTrace(ToIndexerTransaction(Head(transactions), blockHeight)).logged = "error"
    THEN [repo EXCEPT !.processed = Append(repo.processed, Head(transactions).id)]
  ELSE ProcessAllAborting(
         IF IsScannable(Head(transactions))
           THEN AddAll([repo EXCEPT !.processed =
                          Append(repo.processed, Head(transactions).id)],
                       Process(ToIndexerTransaction(Head(transactions), blockHeight)))
           ELSE repo,
         Tail(transactions), blockHeight)

RECURSIVE ProcessAll(_, _, _)
\* The loop over the transactions of one block; `processed` lists the
\* transactions handed to process().
ProcessAll(repo, transactions, blockHeight) ==
  IF transactions = <<>> THEN repo
  ELSE ProcessAll(
         IF IsScannable(Head(transactions))
           THEN AddAll([repo EXCEPT !.processed =
                          Append(repo.processed, Head(transactions).id)],
                       Process(ToIndexerTransaction(Head(transactions), blockHeight)))
           ELSE repo,
         Tail(transactions), blockHeight)

\* Progress set to the processed height without the comparison.
AssignProgress(last, blockHeight) == blockHeight

\* if (blockHeight > this.lastScannedBlock) this.lastScannedBlock = blockHeight
AdvanceProgress(last, blockHeight) == IF blockHeight > last THEN blockHeight ELSE last

\* processAndAddTransactions(transactions, blockHeight)
ProcessAndAddTransactions(transactions, blockHeight) ==
  LET repo == ProcessAll([u |-> utxos, s |-> utxosSerializable,
                          processed |-> <<>>, added |-> <<>>],
                         transactions, blockHeight)
  IN  /\ utxos' = repo.u
      /\ utxosSerializable' = repo.s
      /\ handled' = [height |-> blockHeight, processed |-> repo.processed,
                     added |-> repo.added]
      /\ lastScannedBlock' = AdvanceProgress(lastScannedBlock, blockHeight)

-----------------------------------------------------------------------------
(* IndexerHttpClient and the scans *)

\* What the transport gives for one GET: a 2xx answer with a JSON body, a 429,
\* another non-2xx status, a timeout, a body that is not JSON.
RawResponses == {"ok", "http429", "http500", "timeout", "badJson"}

\* executeGet: the parsed body, or an Error thrown for everything else.
ExecuteGet(raw) == IF raw = "ok" THEN "ok" ELSE "throw"

\* An end height one block too low.
EndHeightOffByOne(startHeight, maxBlocks) ==
  IF startHeight - maxBlocks > 0 THEN startHeight - maxBlocks ELSE 0

\* Math.max(0, startHeight - maxBlocks + 1)
EndHeight(startHeight, maxBlocks) ==
  IF startHeight - maxBlocks + 1 > 0 THEN startHeight - maxBlocks + 1 ELSE 0

\* A forward loop that stops one height before its end.
ShouldContinueStrict(kind, height, endHeight) ==
  IF kind = "forward" THEN height < endHeight ELSE height >= endHeight

\* scanBlocks' shouldContinue, and the forward loop's height <= end.
ShouldContinue(kind, height, endHeight) ==
  IF kind = "forward" THEN height <= endHeight ELSE height >= endHeight

Increment(kind) == IF kind = "forward" THEN 1 ELSE -1

\* The loop head, reached at the start or when the fetch of scan.height has
\* been answered: ask for `height` when it is in range, else leave the loop
\* and return.
Iterate(kind, height, endHeight) ==
  IF ShouldContinue(kind, height, endHeight)
    THEN /\ pc' = "fetching"
         /\ requested' = Append(requested, height)
         /\ inFlight' = (inFlight \ {scan.height}) \cup {height}
         /\ outcome' = "none"
    ELSE /\ pc' = "done"
         /\ requested' = requested
         /\ inFlight' = inFlight \ {scan.height}
         /\ outcome' = "returned"

\* A wallet scan that returns finalCount as it is.
AtLoopHeadFinalCount(s, height, us) ==
  IF ShouldContinue(s.kind, height, s.endHeight)
    THEN [s EXCEPT !.height = height]
    ELSE [s EXCEPT !.height = height, !.result = Len(GetAll(us))]

\* The scan's locals at the loop head: when the loop is left, a wallet scan
\* computes finalCount - initialCount from getAll() of the store `us`.
AtLoopHead(s, height, us) ==
  IF ShouldContinue(s.kind, height, s.endHeight)
    THEN [s EXCEPT !.height = height]
    ELSE [s EXCEPT !.height = height,
                   !.result = Len(GetAll(us)) - s.initialCount]

\* const indexer = getDefaultIndexer() and const initialCount =
\* this.utxoRepository.getAll().length at the start of a wallet scan.
WalletScan(kind) ==
  [NoScan EXCEPT !.kind = kind,
                 !.initialCount = Len(GetAll(utxos)),
                 !.initialLength = Len(utxos)]

\* getDefaultIndexer() throws: the scan logs the error and throws it again.
NotInitialized(kind) ==
  /\ scan' = [NoScan EXCEPT !.kind = kind, !.error = "notInitialized"]
  /\ pc' = "done"
  /\ outcome' = "threw"
  /\ UNCHANGED <<requested, inFlight>>

\* A backward scan as scanForPayments runs it, with the start height given:
\* scanBackwardsWithCallback(maxBlocks, processTransactions, fromHeight) with
\* the wallet's handler.
StartBackwardFrom(maxBlocks, fromHeight) ==
  /\ pc = "idle"
  /\ IF defaultIndexer
       THEN /\ scan' = AtLoopHead([WalletScan("backward") EXCEPT
                                    !.maxBlocks = maxBlocks,
                                    !.startHeight = fromHeight,
                                    !.endHeight = EndHeight(fromHeight, maxBlocks)],
                               fromHeight, utxos)
            /\ Iterate("backward", fromHeight, EndHeight(fromHeight, maxBlocks))
       ELSE NotInitialized("backward")
  /\ lastResp' = "none"
  /\ skipped' = <<>>
  /\ UNCHANGED <<repoVars, lastScannedBlock, handled, scriptVars, restVars>>

\* wallet.scanForPayments(maxBlocks): the start height is the indexer's tip.
StartBackward(maxBlocks) ==
  /\ pc = "idle"
  /\ IF defaultIndexer
       THEN /\ scan' = [WalletScan("backward") EXCEPT !.maxBlocks = maxBlocks]
            /\ pc' = "resolving"
            /\ UNCHANGED <<requested, outcome, inFlight>>
       ELSE NotInitialized("backward")
  /\ UNCHANGED <<repoVars, lastScannedBlock, lastResp, skipped, handled,
                 scriptVars, restVars>>

\* The answer to getLatestBlockHeight() of a backward scan.
ResolveBackward(raw, tip) ==
  /\ pc = "resolving"
  /\ scan.kind = "backward"
  /\ IF ExecuteGet(raw) = "ok"
       THEN /\ scan' = AtLoopHead([scan EXCEPT !.startHeight = tip,
                                               !.endHeight = EndHeight(tip, scan.maxBlocks)],
                               tip, utxos)
            /\ Iterate("backward", tip, EndHeight(tip, scan.maxBlocks))
       ELSE /\ pc' = "done"
            /\ outcome' = "threw"
            /\ scan' = [scan EXCEPT !.error = "transport"]
            /\ UNCHANGED <<requested, inFlight>>
  /\ UNCHANGED <<repoVars, lastScannedBlock, lastResp, skipped, handled, scriptVars, restVars>>

\* A scanBlocks without the try/catch around the fetch: a failure ends the
\* invocation.
RespondBackwardUncaught(raw) ==
  /\ pc = "fetching"
  /\ scan.kind = "backward"
  /\ IF ExecuteGet(raw) = "ok" /\ Len(Chain(scan.height)) > 0
       THEN ProcessAndAddTransactions(Chain(scan.height), scan.height)
       ELSE UNCHANGED <<utxos, utxosSerializable, lastScannedBlock, handled>>
  /\ lastResp' = raw
  /\ skipped' = skipped
  /\ IF ExecuteGet(raw) = "ok"
       THEN /\ scan' = [scan EXCEPT !.height = scan.height + Increment("backward")]
            /\ Iterate("backward", scan.height + Increment("backward"), scan.endHeight)
       ELSE /\ pc' = "done"
            /\ outcome' = "threw"
            /\ UNCHANGED <<scan, requested, inFlight>>
  /\ UNCHANGED <<call, scriptVars, restVars>>

\* A scanBlocks that does not await the handler: the next height is asked for
\* while the block's transactions are still to be processed.
RespondBackwardDeferred(raw) ==
  /\ pc = "fetching"
  /\ scan.kind = "backward"
  /\ UNCHANGED <<utxos, utxosSerializable, lastScannedBlock, handled>>
  /\ lastResp' = raw
  /\ skipped' = IF ExecuteGet(raw) = "ok" THEN skipped ELSE Append(skipped, scan.height)
  /\ scan' = [scan EXCEPT !.height = scan.height + Increment("backward")]
  /\ Iterate("backward", scan.height + Increment("backward"), scan.endHeight)
  /\ UNCHANGED <<call, scriptVars, restVars>>

\* The answer to getTransactionsByHeight(height) inside scanBlocks: the
\* handler on a block that has transactions, a warning on a failure, then
\* the next height.
RespondBackward(raw) ==
  /\ pc = "fetching"
  /\ scan.kind = "backward"
  /\ IF ExecuteGet(raw) = "ok" /\ Len(Chain(scan.height)) > 0
       THEN ProcessAndAddTransactions(Chain(scan.height), scan.height)
       ELSE UNCHANGED <<utxos, utxosSerializable, lastScannedBlock, handled>>
  /\ lastResp' = raw
  /\ skipped' = IF ExecuteGet(raw) = "ok" THEN skipped ELSE Append(skipped, scan.height)
  /\ scan' = AtLoopHead(scan, scan.height + Increment("backward"), utxos')
  /\ Iterate("backward", scan.height + Increment("backward"), scan.endHeight)
  /\ UNCHANGED <<call, scriptVars, restVars>>

\* A scanForPaymentsForward that does not ask for the default indexer before
\* it sends its first request.
StartForwardToUnchecked(startHeight, endHeight) ==
  /\ pc = "idle"
  /\ scan' = AtLoopHead([WalletScan("forward") EXCEPT !.startHeight = startHeight,
                                                      !.endHeight = endHeight],
                        startHeight, utxos)
  /\ Iterate("forward", startHeight, endHeight)
  /\ lastResp' = "none"
  /\ skipped' = <<>>
  /\ UNCHANGED <<repoVars, lastScannedBlock, handled, scriptVars, restVars>>

\* wallet.scanForPaymentsForward(startHeight, endHeight)
StartForwardTo(startHeight, endHeight) ==
  /\ pc = "idle"
  /\ IF defaultIndexer
       THEN /\ scan' = AtLoopHead([WalletScan("forward") EXCEPT
                                    !.startHeight = startHeight,
                                    !.endHeight = endHeight],
                               startHeight, utxos)
            /\ Iterate("forward", startHeight, endHeight)
       ELSE NotInitialized("forward")
  /\ lastResp' = "none"
  /\ skipped' = <<>>
  /\ UNCHANGED <<repoVars, lastScannedBlock, handled, scriptVars, restVars>>

\* wallet.scanForPaymentsForward(startHeight): the end is the indexer's tip.
StartForward(startHeight) ==
  /\ pc = "idle"
  /\ IF defaultIndexer
       THEN /\ scan' = [WalletScan("forward") EXCEPT !.startHeight = startHeight,
                                                     !.height = startHeight]
            /\ pc' = "resolving"
            /\ UNCHANGED <<requested, outcome, inFlight>>
       ELSE NotInitialized("forward")
  /\ UNCHANGED <<repoVars, lastScannedBlock, lastResp, skipped, handled,
                 scriptVars, restVars>>

\* The answer to getLatestBlockHeight() of a forward scan.
ResolveForward(raw, tip) ==
  /\ pc = "resolving"
  /\ scan.kind = "forward"
  /\ IF ExecuteGet(raw) = "ok"
       THEN /\ scan' = AtLoopHead([scan EXCEPT !.endHeight = tip],
                               scan.startHeight, utxos)
            /\ Iterate("forward", scan.startHeight, tip)
       ELSE /\ pc' = "done"
            /\ outcome' = "threw"
            /\ scan' = [scan EXCEPT !.error = "transport"]
            /\ UNCHANGED <<requested, inFlight>>
  /\ UNCHANGED <<repoVars, lastScannedBlock, lastResp, skipped, handled, scriptVars, restVars>>

\* The answer to getTransactionsByHeight(height) inside the forward loop.
RespondForward(raw) ==
  /\ pc = "fetching"
  /\ scan.kind = "forward"
  /\ IF ExecuteGet(raw) = "ok" /\ Len(Chain(scan.height)) > 0
       THEN ProcessAndAddTransactions(Chain(scan.height), scan.height)
       ELSE UNCHANGED <<utxos, utxosSerializable, lastScannedBlock, handled>>
  /\ lastResp' = raw
  /\ skipped' = IF ExecuteGet(raw) = "ok" THEN skipped ELSE Append(skipped, scan.height)
  /\ scan' = AtLoopHead(scan, scan.height + Increment("forward"), utxos')
  /\ Iterate("forward", scan.height + Increment("forward"), scan.endHeight)
  /\ UNCHANGED <<call, scriptVars, restVars>>

\* The caller has the result; the wallet is ready for the next scan.
Finish ==
  /\ pc = "done"
  /\ pc' = "idle"
  /\ scan' = NoScan
  /\ requested' = <<>>
  /\ lastResp' = "none"
  /\ skipped' = <<>>
  /\ outcome' = "none"
  /\ handled' = NoBlock
  /\ UNCHANGED <<repoVars, lastScannedBlock, inFlight, scriptVars, restVars>>

Heights == 0..MaxTip

-----------------------------------------------------------------------------
(* Two scans at once on one wallet *)

\* The head of a scan's loop.
LoopAt(kind, height, endHeight, fetched) ==
  [pc |-> IF ShouldContinue(kind, height, endHeight) THEN "fetching" ELSE "done",
   height |-> height, endHeight |-> endHeight, fetched |-> fetched]

\* wallet.scanForPayments(maxBlocks) and wallet.scanForPaymentsForward(
\* startHeight) are called one after the other without awaiting the first;
\* both read the indexer's latest height, `tip`, and send their first request.
ConcStart(maxBlocks, startHeight, tip) ==
  /\ conc.backward.pc = "idle" /\ conc.forward.pc = "idle"
  /\ pc = "idle"
  /\ conc' = [backward |-> LoopAt("backward", tip, EndHeight(tip, maxBlocks), {}),
              forward |-> LoopAt("forward", startHeight, tip, {})]
  /\ UNCHANGED <<repoVars, scanVars, scriptVars, processCall, keyVars, configVars,
                 stream, otherVars>>

\* The answer to the pending fetch of the scan `kind`: the handler runs to its
\* end on a block that has transactions, and the scan's next request is sent.
ConcRespond(kind, raw) ==
  /\ conc[kind].pc = "fetching"
  /\ IF ExecuteGet(raw) = "ok" /\ Len(Chain(conc[kind].height)) > 0
       THEN ProcessAndAddTransactions(Chain(conc[kind].height), conc[kind].height)
       ELSE UNCHANGED <<utxos, utxosSerializable, lastScannedBlock, handled>>
  /\ conc' = [conc EXCEPT ![kind] =
       LoopAt(kind, conc[kind].height + Increment(kind), conc[kind].endHeight,
              IF ExecuteGet(raw) = "ok"
                THEN conc[kind].fetched \cup {conc[kind].height}
                ELSE conc[kind].fetched)]
  /\ UNCHANGED <<call, pc, scan, requested, lastResp, skipped, outcome, inFlight,
                 scriptVars, processCall, keyVars, configVars, stream, otherVars>>

InitConc == Init

NextConc ==
  \/ \E maxBlocks \in 1..MaxBlocks, startHeight \in Heights, tip \in Heights :
       ConcStart(maxBlocks, startHeight, tip)
  \/ \E kind \in {"backward", "forward"}, raw \in RawResponses : ConcRespond(kind, raw)

SpecConc == InitConc /\ [][NextConc]_vars

-----------------------------------------------------------------------------
(* scanBackwards and scanBackwardsWithCallback on their own *)

\* What a caller's handler does with a block: it resolves, it resolves with a
\* request to stop, or it rejects.
HandlerOutcomes == {"ok", "stop", "throws"}

\* A bulk scan that keeps the first transaction of each block.
PushFirst(allTransactions, transactions) == Append(allTransactions, Head(transactions))

\* allTransactions.push(...response.transactions)
PushAll(allTransactions, transactions) == allTransactions \o transactions

\* The loop head of scanBlocks: the next request is sent, or the loop is left
\* and the call returns.
StreamLoop(st, height, fetching, returned) ==
  IF ShouldContinue("backward", height, st.endHeight)
    THEN [st EXCEPT !.pc = fetching, !.height = height,
                    !.requested = Append(st.requested, height)]
    ELSE [st EXCEPT !.pc = returned, !.height = height]

\* indexer.scanBackwards(maxBlocks, fromHeight)
ScanBackwards(maxBlocks, fromHeight) ==
  /\ stream.pc = "idle"
  /\ stream' = StreamLoop([NoStream EXCEPT !.maxBlocks = maxBlocks,
                                           !.startHeight = fromHeight,
                                           !.endHeight = EndHeight(fromHeight, maxBlocks)],
                          fromHeight, "bulk", "returned")
  /\ UNCHANGED <<repoVars, scanVars, scriptVars, processCall, conc, keyVars, configVars,
                 otherVars>>

\* The answer to getTransactionsByHeight(height) in the bulk form.
BulkRespond(raw) ==
  /\ stream.pc = "bulk"
  /\ stream' =
       StreamLoop(
         [stream EXCEPT
            !.served = (stream.height :> ExecuteGet(raw)) @@ stream.served,
            !.allTransactions =
               IF ExecuteGet(raw) = "ok" /\ Len(Chain(stream.height)) > 0
                 THEN PushAll(stream.allTransactions, Chain(stream.height))
                 ELSE stream.allTransactions],
         stream.height + Increment("backward"), "bulk", "returned")
  /\ UNCHANGED <<repoVars, scanVars, scriptVars, processCall, conc, keyVars, configVars,
                 otherVars>>

\* indexer.scanBackwardsWithCallback(maxBlocks, handler, fromHeight) with the
\* arguments of the bulk scan.
ScanBackwardsWithCallback ==
  /\ stream.pc = "returned"
  /\ stream' = StreamLoop([stream EXCEPT !.requested = <<>>],
                          stream.startHeight, "callback", "done")
  /\ UNCHANGED <<repoVars, scanVars, scriptVars, processCall, conc, keyVars, configVars,
                 otherVars>>

\* The answer to getTransactionsByHeight(height) in the callback form, the
\* one the bulk scan was given: the handler is awaited on a block that has
\* transactions; what it resolves with is not looked at, and its rejection
\* is caught with the errors of the fetch.
CallbackRespond(handler) ==
  /\ stream.pc = "callback"
  /\ stream' =
       StreamLoop(
         [stream EXCEPT
            !.batches =
               IF stream.served[stream.height] = "ok" /\ Len(Chain(stream.height)) > 0
                 THEN Append(stream.batches,
                             [height |-> stream.height,
                              transactions |-> Chain(stream.height),
                              at |-> Len(stream.requested),
                              outcome |-> handler])
                 ELSE stream.batches],
         stream.height + Increment("backward"), "callback", "done")
  /\ UNCHANGED <<repoVars, scanVars, scriptVars, processCall, conc, keyVars, configVars,
                 otherVars>>

\* The caller has both results.
StreamFinish ==
  /\ stream.pc = "done"
  /\ stream' = NoStream
  /\ UNCHANGED <<repoVars, scanVars, scriptVars, processCall, conc, keyVars, configVars,
                 otherVars>>

InitStream == Init

NextStream ==
  \/ \E maxBlocks \in 0..MaxBlocks, fromHeight \in Heights :
       ScanBackwards(maxBlocks, fromHeight)
  \/ \E raw \in RawResponses : BulkRespond(raw)
  \/ ScanBackwardsWithCallback
  \/ \E handler \in HandlerOutcomes : CallbackRespond(handler)
  \/ StreamFinish

SpecStream == InitStream /\ [][NextStream]_vars

-----------------------------------------------------------------------------
(* One range scanned backward by one wallet and forward by another *)

\* The head of a wallet's scan loop.
TwinLoop(kind, w, height, endHeight) ==
  TwinWallet(IF ShouldContinue(kind, height, endHeight) THEN "fetching" ELSE "done",
             height, endHeight, w.u, w.s, w.last)

\* Two wallets of one seed that hold the same repository and the same
\* progress (two new wallets, or two that have made the backward scans so
\* far): the first calls scanForPayments(maxBlocks, fromHeight), the second
\* scanForPaymentsForward over the same heights.
TwinStart(maxBlocks, fromHeight) ==
  /\ twin.backward.pc \in {"idle", "done"}
  /\ twin.forward.pc = twin.backward.pc
  /\ twin' = [backward |-> TwinLoop("backward", twin.backward, fromHeight,
                                     EndHeight(fromHeight, maxBlocks)),
              forward |-> TwinLoop("forward", twin.backward,
                                   EndHeight(fromHeight, maxBlocks), fromHeight)]
  /\ UNCHANGED <<repoVars, scanVars, scriptVars, processCall, conc, keyVars, configVars,
                 stream, compat, persist, registry>>

\* The indexer answers the pending fetch of the wallet scanning in direction
\* `kind` with the block of the chain: the wallet's handler runs on a block
\* that has transactions, and the loop goes to its next height.
TwinRespond(kind) ==
  /\ twin[kind].pc = "fetching"
  /\ LET w == twin[kind]
         block == Chain(w.height)
         repo == ProcessAll([u |-> w.u, s |-> w.s, processed |-> <<>>, added |-> <<>>],
                            block, w.height)
         after == IF Len(block) > 0
                    THEN [w EXCEPT !.u = repo.u, !.s = repo.s,
                                   !.last = AdvanceProgress(w.last, w.height)]
                    ELSE w
     IN  twin' = [twin EXCEPT ![kind] =
                    TwinLoop(kind, after, w.height + Increment(kind), w.endHeight)]
  /\ UNCHANGED <<repoVars, scanVars, scriptVars, processCall, conc, keyVars, configVars,
                 stream, compat, persist, registry>>

InitTwin == Init

NextTwin ==
  \/ \E maxBlocks \in 1..MaxBlocks, fromHeight \in Heights : TwinStart(maxBlocks, fromHeight)
  \/ \E kind \in {"backward", "forward"} : TwinRespond(kind)

SpecTwin == InitTwin /\ [][NextTwin]_vars

-----------------------------------------------------------------------------
(* The default indexer *)

\* initializeIndexer(config)
InitializeIndexer ==
  /\ defaultIndexer' = TRUE
  /\ UNCHANGED <<repoVars, scanVars, scriptVars, processCall, conc, keyVars, cachedSeed,
                 stream, otherVars>>

\* resetIndexer()
ResetIndexer ==
  /\ defaultIndexer' = FALSE
  /\ UNCHANGED <<repoVars, scanVars, scriptVars, processCall, conc, keyVars, cachedSeed,
                 stream, otherVars>>

Next ==
  \/ \E maxBlocks \in 0..MaxBlocks, fromHeight \in (-1)..MaxTip :
       StartBackwardFrom(maxBlocks, fromHeight)
  \/ \E maxBlocks \in 0..MaxBlocks : StartBackward(maxBlocks)
  \/ \E raw \in RawResponses, tip \in Heights : ResolveBackward(raw, tip)
  \/ \E raw \in RawResponses : RespondBackward(raw)
  \/ \E startHeight \in Heights, endHeight \in Heights :
       StartForwardTo(startHeight, endHeight)
  \/ \E startHeight \in Heights : StartForward(startHeight)
  \/ \E raw \in RawResponses, tip \in Heights : ResolveForward(raw, tip)
  \/ \E raw \in RawResponses : RespondForward(raw)
  \/ Finish

Spec == Init /\ [][Next]_vars

\* A wallet in an application that has not initialized the indexer yet; its
\* seed is well formed or not.
InitConfig ==
  /\ NewWallet
  /\ processCall = NoProcess
  /\ defaultIndexer = FALSE
  /\ cachedSeed \in {"wellFormed", "malformed"}

\* The wallet's scans while the application initializes and resets the
\* default indexer.
NextConfig ==
  \/ InitializeIndexer
  \/ ResetIndexer
  \/ \E maxBlocks \in 0..MaxBlocks : StartBackward(maxBlocks)
  \/ \E raw \in RawResponses, tip \in Heights : ResolveBackward(raw, tip)
  \/ \E raw \in RawResponses : RespondBackward(raw)
  \/ \E startHeight \in Heights, endHeight \in Heights :
       StartForwardTo(startHeight, endHeight)
  \/ \E startHeight \in Heights : StartForward(startHeight)
  \/ \E raw \in RawResponses, tip \in Heights : ResolveForward(raw, tip)
  \/ \E raw \in RawResponses : RespondForward(raw)
  \/ Finish

SpecConfig == InitConfig /\ [][NextConfig]_vars

-----------------------------------------------------------------------------
(* test-scan-tweaks.js: the scan-tweak fetcher *)

START_BLOCK == 100

\* The last height findLastBlock probes.
ProbeLimit == 120

\* makeRequest rejects on a connection error.
NetworkError == [status |-> 0, parsed |-> FALSE, rejected |-> TRUE]

\* What makeRequest resolves to: the status, and whether the body parsed as
\* JSON; or its rejection.
Responses ==
  {[status |-> st, parsed |-> p, rejected |-> FALSE] :
     st \in {200, 429, 500}, p \in BOOLEAN} \cup {NetworkError}

\* The answers the indexer can give for a block height: 200 only for a block
\* it has indexed.
ResponsesFor(height) ==
  {r \in Responses : r.status = 200 => height <= indexed}

\* The head of the loop of step 3 and, past the last block, the statistics
\* and the files.
FetchLoop(s, height) ==
  IF height <= s.lastBlock
    THEN [s EXCEPT !.pc = "fetch", !.height = height, !.retry = FALSE]
    ELSE [s EXCEPT !.pc = "done", !.height = height, !.retry = FALSE,
                   !.saved = s.scanTweaks]

\* findLastBlock has returned lastBlock: step 3 of fetchScanTweaks.
FetchScanTweaks(s, lastBlock) ==
  IF lastBlock < START_BLOCK
    THEN [s EXCEPT !.pc = "done", !.lastBlock = lastBlock, !.retry = FALSE]
    ELSE FetchLoop([s EXCEPT !.lastBlock = lastBlock, !.scanTweaks = <<>>,
                             !.blocksWithTweaks = 0, !.totalTweaks = 0],
                   START_BLOCK)

\* The head of findLastBlock's loop.
ProbeLoop(s, height) ==
  IF height <= ProbeLimit
    THEN [s EXCEPT !.pc = "probe", !.height = height, !.retry = FALSE]
    ELSE FetchScanTweaks([s EXCEPT !.height = height], s.lastBlock)

\* fetchScanTweaks() is called against an indexer whose last block is `tip`:
\* the health request is sent.
RunScript(tip) ==
  /\ script.pc = "start"
  /\ script' = [script EXCEPT !.pc = "health"]
  /\ indexed' = tip
  /\ UNCHANGED <<restVars, repoVars, scanVars>>

\* The answer to /health: on 200 findLastBlock starts with its first probe;
\* anything else ends the run.
HealthCheck(response) ==
  /\ script.pc = "health"
  /\ script' = IF ~response.rejected /\ response.status = 200
                 THEN ProbeLoop([script EXCEPT !.lastBlock = START_BLOCK - 1],
                                START_BLOCK)
                 ELSE [script EXCEPT !.pc = "done"]
  /\ UNCHANGED <<restVars, repoVars, scanVars, indexed>>

\* findLastBlock: the answer to the probe of `height`. A 200 records the
\* height and sleeps 250 ms; a 429 sleeps 2000 ms before the same height is
\* asked again; anything else leaves the loop.
ProbeRespond(response) ==
  /\ script.pc = "probe"
  /\ response \in ResponsesFor(script.height)
  /\ script' =
       IF response.rejected THEN FetchScanTweaks(script, script.lastBlock)
       ELSE IF response.status = 200
         THEN [script EXCEPT !.lastBlock = script.height, !.pc = "probeSleep",
                             !.retry = FALSE]
       ELSE IF response.status = 429
         THEN [script EXCEPT !.pc = "probeSleep", !.retry = TRUE]
       ELSE FetchScanTweaks(script, script.lastBlock)
  /\ UNCHANGED <<restVars, repoVars, scanVars, indexed>>

\* findLastBlock: the sleep is over; after a 429 `height--; continue`, then
\* the loop's height++ and its test.
ProbeWake ==
  /\ script.pc = "probeSleep"
  /\ script' = ProbeLoop(script,
                 (IF script.retry THEN script.height - 1 ELSE script.height) + 1)
  /\ UNCHANGED <<restVars, repoVars, scanVars, indexed>>

\* tweakData of one transaction.
TweakData(tx, height) ==
  [blockHeight |-> IF tx.blockHeight # 0 THEN tx.blockHeight ELSE height,
   blockHash |-> tx.blockHash, txid |-> tx.id, scanTweak |-> tx.scanTweak,
   outputs |-> tx.outputs]

RECURSIVE PushTweaks(_, _, _)
\* scanTweaks after the transactions that carry a scan tweak are pushed.
PushTweaks(scanTweaks, transactions, height) ==
  IF transactions = <<>> THEN scanTweaks
  ELSE PushTweaks(IF Len(Head(transactions).scanTweak) > 0
                    THEN Append(scanTweaks, TweakData(Head(transactions), height))
                    ELSE scanTweaks,
                  Tail(transactions), height)

\* fetchScanTweaks, step 3: the answer to the request for `height`. A 429
\* sleeps 1000 ms before the same height is asked again; a 200 with
\* transactions is counted and its tweaks collected; a rejection is logged
\* and the loop goes on without sleeping.
FetchRespond(response) ==
  /\ script.pc = "fetch"
  /\ response \in ResponsesFor(script.height)
  /\ script' =
       IF response.rejected THEN FetchLoop(script, script.height + 1)
       ELSE IF response.status = 429
         THEN [script EXCEPT !.pc = "fetchSleep", !.retry = TRUE]
       ELSE IF response.status = 200 /\ response.parsed
               /\ Len(Chain(script.height)) > 0
         THEN LET tweaks == PushTweaks(script.scanTweaks, Chain(script.height),
                                       script.height)
              IN  [script EXCEPT !.pc = "fetchSleep", !.retry = FALSE,
                     !.blocksWithTweaks = script.blocksWithTweaks + 1,
                     !.scanTweaks = tweaks,
                     !.totalTweaks = script.totalTweaks
                                       + Len(tweaks) - Len(script.scanTweaks)]
       ELSE [script EXCEPT !.pc = "fetchSleep", !.retry = FALSE]
  /\ UNCHANGED <<restVars, repoVars, scanVars, indexed>>

\* fetchScanTweaks, step 3: the sleep is over.
FetchWake ==
  /\ script.pc = "fetchSleep"
  /\ script' = FetchLoop(script,
                 (IF script.retry THEN script.height - 1 ELSE script.height) + 1)
  /\ UNCHANGED <<restVars, repoVars, scanVars, indexed>>

InitScript == Init

NextScript ==
  \/ \E tip \in (START_BLOCK - 1)..(START_BLOCK + MaxIndexed) : RunScript(tip)
  \/ \E response \in Responses : HealthCheck(response)
  \/ \E response \in Responses : ProbeRespond(response)
  \/ ProbeWake
  \/ \E response \in Responses : FetchRespond(response)
  \/ FetchWake

SpecScript == InitScript /\ [][NextScript]_vars

\* The event loop runs the script's next step whenever it has one.
SpecScriptFair == SpecScript /\ WF_vars(NextScript)

-----------------------------------------------------------------------------
(* SilentPaymentKeyDerivation *)

Seeds == 1..MaxSeeds

SpendPath == "m/352'/0'/0'/0'/0"
ScanPath == "m/352'/0'/0'/1'/0"

\* bip32.fromSeed(seed) and root.derivePath(path): the node is a function of
\* the seed and the path; a node has a private and a public key.
FromSeed(seed) == <<"root", seed>>
DerivePath(root, path) == <<"node", root[2], path>>
PrivateKey(node) == <<"privateKey", node[2], node[3]>>
PublicKey(node) == <<"publicKey", node[2], node[3]>>

\* encodeSilentPaymentAddress(scanPublicKey, spendPublicKey)
EncodeSilentPaymentAddress(scanPublicKey, spendPublicKey) ==
  <<"sp1", scanPublicKey, spendPublicKey>>

\* A deriveKeys that takes the scan key from the spend path.
DeriveKeysOnePath(k) ==
  IF k.scanKey # <<>> /\ k.spendKey # <<>> THEN k
  ELSE [k EXCEPT !.spendKey = DerivePath(FromSeed(k.seed), SpendPath),
                 !.scanKey = DerivePath(FromSeed(k.seed), SpendPath),
                 !.derivations = k.derivations + 1]

\* A deriveKeys without the test of the cached keys.
DeriveKeysEveryCall(k) ==
  [k EXCEPT !.spendKey = DerivePath(FromSeed(k.seed), SpendPath),
            !.scanKey = DerivePath(FromSeed(k.seed), ScanPath),
            !.derivations = k.derivations + 1]

\* deriveKeys(): nothing when both keys are cached.
DeriveKeys(k) ==
  IF k.scanKey # <<>> /\ k.spendKey # <<>> THEN k
  ELSE [k EXCEPT !.spendKey = DerivePath(FromSeed(k.seed), SpendPath),
                 !.scanKey = DerivePath(FromSeed(k.seed), ScanPath),
                 !.derivations = k.derivations + 1]

\* A getter that derives the keys and returns `value` of them.
KeyGetter(i, op, value) ==
  /\ keyDerivation[i].seed # 0
  /\ keyDerivation' = [keyDerivation EXCEPT ![i] = DeriveKeys(keyDerivation[i])]
  /\ keyCall' = [op |-> op, instance |-> i, value |-> value,
                 prev |-> <<keyCall.op, keyCall.instance>>]
  /\ UNCHANGED <<repoVars, scanVars, scriptVars, processCall, conc, configVars,
                 stream, otherVars>>

\* new SilentPaymentKeyDerivation(seed): a wallet is created, or restarted.
NewKeyDerivation(i, seed) ==
  /\ keyDerivation' = [keyDerivation EXCEPT ![i] = [NoInstance EXCEPT !.seed = seed]]
  /\ keyCall' = [op |-> "new", instance |-> i, value |-> <<>>,
                 prev |-> <<keyCall.op, keyCall.instance>>]
  /\ UNCHANGED <<repoVars, scanVars, scriptVars, processCall, conc, configVars,
                 stream, otherVars>>

GetScanPrivateKey(i) ==
  KeyGetter(i, "getScanPrivateKey", PrivateKey(DeriveKeys(keyDerivation[i]).scanKey))

GetSpendPrivateKey(i) ==
  KeyGetter(i, "getSpendPrivateKey", PrivateKey(DeriveKeys(keyDerivation[i]).spendKey))

GetScanPublicKey(i) ==
  KeyGetter(i, "getScanPublicKey", PublicKey(DeriveKeys(keyDerivation[i]).scanKey))

GetSpendPublicKey(i) ==
  KeyGetter(i, "getSpendPublicKey", PublicKey(DeriveKeys(keyDerivation[i]).spendKey))

\* getSilentPaymentAddress(): the cached address when there is one, else the
\* keys are derived and the address encoded and cached.
GetSilentPaymentAddress(i) ==
  /\ keyDerivation[i].seed # 0
  /\ IF keyDerivation[i].silentPaymentAddress # <<>>
       THEN /\ keyDerivation' = keyDerivation
            /\ keyCall' = [op |-> "getSilentPaymentAddress", instance |-> i,
                           value |-> keyDerivation[i].silentPaymentAddress,
                           prev |-> <<keyCall.op, keyCall.instance>>]
       ELSE LET k == DeriveKeys(keyDerivation[i])
                address == EncodeSilentPaymentAddress(PublicKey(k.scanKey),
                                                      PublicKey(k.spendKey))
            IN  /\ keyDerivation' = [keyDerivation EXCEPT ![i] =
                                       [k EXCEPT !.silentPaymentAddress = address]]
                /\ keyCall' = [op |-> "getSilentPaymentAddress", instance |-> i,
                               value |-> address,
                               prev |-> <<keyCall.op, keyCall.instance>>]
  /\ UNCHANGED <<repoVars, scanVars, scriptVars, processCall, conc, configVars,
                 stream, otherVars>>

\* A clear() that forgets the keys and keeps the cached address.
ClearKeysKeepAddress(i) ==
  /\ keyDerivation[i].seed # 0
  /\ keyDerivation' = [keyDerivation EXCEPT ![i].scanKey = <<>>,
                                            ![i].spendKey = <<>>,
                                            ![i].derivations = 0]
  /\ keyCall' = [op |-> "clear", instance |-> i, value |-> <<>>,
                 prev |-> <<keyCall.op, keyCall.instance>>]
  /\ UNCHANGED <<repoVars, scanVars, scriptVars, processCall, conc, configVars,
                 stream, otherVars>>

\* clear()
ClearKeys(i) ==
  /\ keyDerivation[i].seed # 0
  /\ keyDerivation' = [keyDerivation EXCEPT ![i] =
                         [NoInstance EXCEPT !.seed = keyDerivation[i].seed]]
  /\ keyCall' = [op |-> "clear", instance |-> i, value |-> <<>>,
                 prev |-> <<keyCall.op, keyCall.instance>>]
  /\ UNCHANGED <<repoVars, scanVars, scriptVars, processCall, conc, configVars,
                 stream, otherVars>>

InitKeys == Init

NextKeys ==
  \/ \E i \in Instances, seed \in Seeds : NewKeyDerivation(i, seed)
  \/ \E i \in Instances : GetScanPrivateKey(i)
  \/ \E i \in Instances : GetSpendPrivateKey(i)
  \/ \E i \in Instances : GetScanPublicKey(i)
  \/ \E i \in Instances : GetSpendPublicKey(i)
  \/ \E i \in Instances : GetSilentPaymentAddress(i)
  \/ \E i \in Instances : ClearKeys(i)

SpecKeys == InitKeys /\ [][NextKeys]_vars

-----------------------------------------------------------------------------
(* The legacy wallet and the composed wallet, called in step *)

Mnemonics == {<<"mnemonic", n>> : n \in Seeds}

\* bip39.mnemonicToSeedSync(mnemonic, ''): the seed is a function of the
\* mnemonic.
MnemonicToSeedSync(mnemonic) == mnemonic[2]

KeyOps == {"getScanPrivateKey", "getSpendPrivateKey", "getScanPublicKey",
           "getSpendPublicKey", "getSilentPaymentAddress"}

\* The value a key getter reads from the derived keys.
KeyValue(scanKey, spendKey, op) ==
  CASE op = "getScanPrivateKey" -> PrivateKey(scanKey)
    [] op = "getSpendPrivateKey" -> PrivateKey(spendKey)
    [] op = "getScanPublicKey" -> PublicKey(scanKey)
    [] op = "getSpendPublicKey" -> PublicKey(spendKey)

\* Legacy _getSeed(): the cached seed, or the one of the mnemonic, cached.
LegacyGetSeed(w) ==
  IF w.cachedSeed # 0 THEN w
  ELSE [w EXCEPT !.cachedSeed = MnemonicToSeedSync(w.secret)]

\* Legacy ensureKeys().
EnsureKeys(w) ==
  IF w.scanKey # <<>> /\ w.spendKey # <<>> THEN w
  ELSE LET seeded == LegacyGetSeed(w)
       IN  [seeded EXCEPT
              !.spendKey = DerivePath(FromSeed(seeded.cachedSeed), SpendPath),
              !.scanKey = DerivePath(FromSeed(seeded.cachedSeed), ScanPath)]

\* A call of a getter or of clearCache() on the legacy wallet: the wallet
\* after it and what it returned.
LegacyCall(w, op) ==
  IF op = "clearCache"
    THEN [w |-> [w EXCEPT !.silentPaymentAddress = <<>>, !.scanKey = <<>>,
                          !.spendKey = <<>>, !.cachedSeed = 0],
          value |-> <<>>]
  ELSE IF op = "getSilentPaymentAddress"
    THEN IF w.silentPaymentAddress # <<>>
           THEN [w |-> w, value |-> w.silentPaymentAddress]
           ELSE LET k == EnsureKeys(w)
                    address == EncodeSilentPaymentAddress(PublicKey(k.scanKey),
                                                          PublicKey(k.spendKey))
                IN  [w |-> [k EXCEPT !.silentPaymentAddress = address],
                     value |-> address]
  ELSE [w |-> EnsureKeys(w),
        value |-> KeyValue(EnsureKeys(w).scanKey, EnsureKeys(w).spendKey, op)]

\* The composed wallet's getSeed().
GetSeed(w) ==
  IF w.cachedSeed # 0 THEN w
  ELSE [w EXCEPT !.cachedSeed = MnemonicToSeedSync(w.secret)]

\* ensureServices(): the key derivation and the processor are created from
\* the seed when one of them is missing.
EnsureServices(w) ==
  IF w.keyDerivation # NoInstance /\ w.transactionProcessor THEN w
  ELSE LET seeded == GetSeed(w)
       IN  [seeded EXCEPT
              !.keyDerivation = [NoInstance EXCEPT !.seed = seeded.cachedSeed],
              !.transactionProcessor = TRUE]

\* A getter of SilentPaymentKeyDerivation on the instance k: the instance
\* after it and what it returned.
KeyDerivationCall(k, op) ==
  IF op = "getSilentPaymentAddress"
    THEN IF k.silentPaymentAddress # <<>>
           THEN [k |-> k, value |-> k.silentPaymentAddress]
           ELSE LET d == DeriveKeys(k)
                    address == EncodeSilentPaymentAddress(PublicKey(d.scanKey),
                                                          PublicKey(d.spendKey))
                IN  [k |-> [d EXCEPT !.silentPaymentAddress = address],
                     value |-> address]
  ELSE [k |-> DeriveKeys(k),
        value |-> KeyValue(DeriveKeys(k).scanKey, DeriveKeys(k).spendKey, op)]

\* A call of a getter or of clearCache() on the composed wallet.
WalletCall(w, op) ==
  IF op = "clearCache"
    THEN [w |-> [w EXCEPT !.keyDerivation = NoInstance,
                          !.transactionProcessor = FALSE,
                          !.cachedSeed = 0],
          value |-> <<>>]
  ELSE LET e == EnsureServices(w)
           r == KeyDerivationCall(e.keyDerivation, op)
       IN  [w |-> [e EXCEPT !.keyDerivation = r.k], value |-> r.value]

\* new HDSilentPaymentsWallet() and setSecret(mnemonic), of both classes.
CompatNew(mnemonic) ==
  /\ compat' = [legacy |-> [NoCompat.legacy EXCEPT !.secret = mnemonic],
                wallet |-> [NoCompat.wallet EXCEPT !.secret = mnemonic],
                last |-> [op |-> "new", prev |-> compat.last.op,
                          legacy |-> <<>>, wallet |-> <<>>]]
  /\ UNCHANGED <<repoVars, scanVars, scriptVars, processCall, conc, keyVars, configVars,
                 stream, twin, persist, registry>>

\* The same call on both wallets.
CompatCall(op) ==
  /\ compat.legacy.secret # <<>>
  /\ compat' = [legacy |-> LegacyCall(compat.legacy, op).w,
                wallet |-> WalletCall(compat.wallet, op).w,
                last |-> [op |-> op, prev |-> compat.last.op,
                          legacy |-> LegacyCall(compat.legacy, op).value,
                          wallet |-> WalletCall(compat.wallet, op).value]]
  /\ UNCHANGED <<repoVars, scanVars, scriptVars, processCall, conc, keyVars, configVars,
                 stream, twin, persist, registry>>

InitCompat == Init

NextCompat ==
  \/ \E mnemonic \in Mnemonics : CompatNew(mnemonic)
  \/ \E op \in KeyOps \cup {"clearCache"} : CompatCall(op)

SpecCompat == InitCompat /\ [][NextCompat]_vars

-----------------------------------------------------------------------------
(* prepareForSerialization and fromJson *)

TypeError == <<"TypeError">>

\* JSON.parse(JSON.stringify(list)) of the serializable entries: strings,
\* integers within the safe range and booleans, which come back as they were.
JsonEntries(list) ==
  [i \in 1..Len(list) |-> [f \in DOMAIN list[i] |-> list[i][f]]]

\* fromJson(JSON.stringify(wallet)) after wallet.prepareForSerialization():
\* _utxos_serializable is loaded into a new repository, the key
\* utxoRepository is passed over, and every other key is assigned as parsed:
\* lastScannedBlock and the secret, and cachedSeed, keyDerivation and
\* transactionProcessor, which are plain objects when they were not null.
FromJson(wallet) ==
  [w |-> wallet.w,
   parsed |-> wallet.parsed \/ wallet.w.keyDerivation # NoInstance
                            \/ wallet.w.transactionProcessor,
   u |-> LoadUtxos([isNull |-> FALSE, items |-> JsonEntries(GetSerializable(wallet.s))]),
   s |-> OrEmpty([isNull |-> FALSE, items |-> JsonEntries(GetSerializable(wallet.s))]),
   lastScannedBlock |-> wallet.lastScannedBlock]

\* A key getter or clearCache() on a wallet. On parsed services
\* ensureServices() finds both non-null and returns, and the method called
\* next on keyDerivation is not there: the call throws a TypeError.
PersistCall(wallet, op) ==
  IF wallet.parsed
    THEN [wallet |-> wallet, value |-> TypeError]
  ELSE IF op = "clearCache"
    THEN [wallet |-> [wallet EXCEPT !.w = WalletCall(wallet.w, op).w,
                                    !.u = <<>>, !.s = <<>>,
                                    !.lastScannedBlock = 0],
          value |-> <<>>]
  ELSE [wallet |-> [wallet EXCEPT !.w = WalletCall(wallet.w, op).w],
        value |-> WalletCall(wallet.w, op).value]

\* The handler of a scan on the block at `height`: on parsed services
\* transactionProcessor.process is not there, the handler throws at the first
\* transaction it would process and the scan logs the height as failed.
PersistHandle(wallet, height) ==
  IF wallet.parsed
    THEN IF \E t \in 1..Len(Chain(height)) : IsScannable(Chain(height)[t])
           THEN [wallet |-> wallet, value |-> TypeError]
           ELSE [wallet |-> [wallet EXCEPT !.lastScannedBlock =
                                AdvanceProgress(wallet.lastScannedBlock, height)],
                 value |-> <<>>]
  ELSE LET repo == ProcessAll([u |-> wallet.u, s |-> wallet.s,
                               processed |-> <<>>, added |-> <<>>],
                              Chain(height), height)
       IN  [wallet |-> [wallet EXCEPT
                          !.w = EnsureServices(wallet.w),
                          !.u = repo.u, !.s = repo.s,
                          !.lastScannedBlock =
                             AdvanceProgress(wallet.lastScannedBlock, height)],
            value |-> <<>>]

\* new HDSilentPaymentsWallet(); setSecret(mnemonic)
PersistNew(mnemonic) ==
  /\ persist' = [NoPersist EXCEPT !.original = PersistWallet(mnemonic),
                                  !.last.op = "new"]
  /\ UNCHANGED <<repoVars, scanVars, scriptVars, processCall, conc, keyVars, configVars,
                 stream, twin, compat, registry>>

\* A call on the wallet `on`: the original before it is saved, the restored
\* one after.
PersistGetter(on, op) ==
  /\ persist.original.w.secret # <<>>
  /\ (on = "restored") = (persist.restored.w.secret # <<>>)
  /\ persist' = [persist EXCEPT
                   ![on] = PersistCall(persist[on], op).wallet,
                   !.last = [op |-> op, on |-> on,
                             value |-> PersistCall(persist[on], op).value,
                             height |-> 0]]
  /\ UNCHANGED <<repoVars, scanVars, scriptVars, processCall, conc, keyVars, configVars,
                 stream, twin, compat, registry>>

\* A scan of the wallet `on` has fetched the block at `height`, which carries
\* transactions, and runs its handler on it.
PersistScan(on, height) ==
  /\ persist.original.w.secret # <<>>
  /\ (on = "restored") = (persist.restored.w.secret # <<>>)
  /\ Len(Chain(height)) > 0
  /\ persist' = [persist EXCEPT
                   ![on] = PersistHandle(persist[on], height).wallet,
                   !.last = [op |-> "scan", on |-> on,
                             value |-> PersistHandle(persist[on], height).value,
                             height |-> height]]
  /\ UNCHANGED <<repoVars, scanVars, scriptVars, processCall, conc, keyVars, configVars,
                 stream, twin, compat, registry>>

\* wallet.prepareForSerialization(), the wallet is written as JSON, and
\* HDSilentPaymentsWallet.fromJson(json) restores it.
PersistRestore ==
  /\ persist.original.w.secret # <<>>
  /\ persist.restored.w.secret = <<>>
  /\ persist' = [persist EXCEPT !.restored = FromJson(persist.original),
                                !.last = [op |-> "fromJson", on |-> "restored",
                                          value |-> <<>>, height |-> 0]]
  /\ UNCHANGED <<repoVars, scanVars, scriptVars, processCall, conc, keyVars, configVars,
                 stream, twin, compat, registry>>

InitPersist == Init

NextPersist ==
  \/ \E mnemonic \in Mnemonics : PersistNew(mnemonic)
  \/ \E on \in {"original", "restored"}, op \in KeyOps \cup {"clearCache"} :
       PersistGetter(on, op)
  \/ \E on \in {"original", "restored"}, height \in Heights : PersistScan(on, height)
  \/ PersistRestore

SpecPersist == InitPersist /\ [][NextPersist]_vars

-----------------------------------------------------------------------------
(* The default indexer as a module-level instance *)

\* The configurations an application initializes the indexer with.
IndexerConfigs == {<<"baseUrl", n>> : n \in 1..2}

\* getDefaultIndexer throwing 'Silent Payment Indexer not initialized'.
NotInitializedError == [threw |-> TRUE, instance |-> NoIndexer]

\* new SilentPaymentIndexer(config): each call makes a new instance, told
\* apart here by the position of the call that made it.
NewIndexer(r, config) == [id |-> Len(r.log) + 1, config |-> config]

\* initializeIndexer that keeps an instance it already has.
InitializeOnce(r, config) ==
  IF r.defaultIndexer # NoIndexer THEN r.defaultIndexer ELSE NewIndexer(r, config)

\* initializeIndexer(config): the value of defaultIndexer after it.
Initialized(r, config) == NewIndexer(r, config)

\* getDefaultIndexer()
GetDefaultIndexer(r) ==
  IF r.defaultIndexer = NoIndexer
  THEN NotInitializedError
  ELSE [threw |-> FALSE, instance |-> r.defaultIndexer]

\* isIndexerInitialized()
IsIndexerInitialized(r) == r.defaultIndexer # NoIndexer

RegistryInitialize(config) ==
  /\ Len(registry.log) < MaxCalls
  /\ registry' = [defaultIndexer |-> Initialized(registry, config),
                  log |-> Append(registry.log, [op |-> "initializeIndexer", config |-> config]),
                  last |-> [op |-> "initializeIndexer", value |-> <<>>]]
  /\ UNCHANGED <<repoVars, scanVars, scriptVars, processCall, conc, keyVars, configVars,
                 stream, twin, compat, persist>>

RegistryReset ==
  /\ Len(registry.log) < MaxCalls
  /\ registry' = [defaultIndexer |-> NoIndexer,
                  log |-> Append(registry.log, [op |-> "resetIndexer", config |-> <<>>]),
                  last |-> [op |-> "resetIndexer", value |-> <<>>]]
  /\ UNCHANGED <<repoVars, scanVars, scriptVars, processCall, conc, keyVars, configVars,
                 stream, twin, compat, persist>>

RegistryIsInitialized ==
  /\ Len(registry.log) < MaxCalls
  /\ registry' = [registry EXCEPT
                    !.log = Append(@, [op |-> "isIndexerInitialized", config |-> <<>>]),
                    !.last = [op |-> "isIndexerInitialized",
                              value |-> IsIndexerInitialized(registry)]]
  /\ UNCHANGED <<repoVars, scanVars, scriptVars, processCall, conc, keyVars, configVars,
                 stream, twin, compat, persist>>

RegistryGetDefault ==
  /\ Len(registry.log) < MaxCalls
  /\ registry' = [registry EXCEPT
                    !.log = Append(@, [op |-> "getDefaultIndexer", config |-> <<>>]),
                    !.last = [op |-> "getDefaultIndexer",
                              value |-> GetDefaultIndexer(registry)]]
  /\ UNCHANGED <<repoVars, scanVars, scriptVars, processCall, conc, keyVars, configVars,
                 stream, twin, compat, persist>>

InitRegistry == Init

NextRegistry ==
  \/ \E config \in IndexerConfigs : RegistryInitialize(config)
  \/ RegistryReset
  \/ RegistryIsInitialized
  \/ RegistryGetDefault

SpecRegistry == InitRegistry /\ [][NextRegistry]_vars

-----------------------------------------------------------------------------
(* Properties of the repository *)

\* C1: in every state reached by add, loadFromSerializable and clear calls the
\* repository holds at most one record per (txid, vout).
C1_OneRecordPerOutpoint ==
  \A i, j \in 1..Len(utxos) :
    <<utxos[i].txid, utxos[i].vout>> = <<utxos[j].txid, utxos[j].vout>> => i = j

\* C2 as stated: add(r) twice, for r whose (txid, vout) is not stored, returns
\* true then false and getAll().length ends exactly one above its value
\* before the two calls.
C2_AddTwiceOneMoreUnspent ==
  /\ (call.op = "add" /\ call.fresh /\ ~call.again) => call.ret = TRUE
  /\ (call.op = "add" /\ call.again) =>
        (call.ret = FALSE /\ Len(GetAll(utxos)) = call.n + 1)

\* C2 amended: add(r) twice, for r whose (txid, vout) is not stored, returns
\* true then false and stores r exactly once; getAll().length ends one above
\* its value before the two calls when r is unspent and equal to it when r
\* is spent.
C2_AddTwice ==
  /\ (call.op = "add" /\ call.fresh /\ ~call.again) =>
        (call.ret = TRUE /\ utxos[Len(utxos)] = call.arg)
  /\ (call.op = "add" /\ call.again) =>
        /\ call.ret = FALSE
        /\ Cardinality({i \in 1..Len(utxos) : utxos[i] = call.arg}) = 1
        /\ Len(GetAll(utxos)) = call.n + (IF call.arg.isSpent THEN 0 ELSE 1)

\* Both kinds of record have been added twice in a row: here a spent one.
C2_Witness ==
  call.op = "add" /\ call.again /\ call.arg.isSpent /\ Len(utxos) = 2

RECURSIVE SumValues(_, _)
\* The sum of the values of the records of `us` at the positions in I.
SumValues(us, I) ==
  IF I = {} THEN 0
  ELSE LET i == CHOOSE x \in I : TRUE
       IN  us[i].value + SumValues(us, I \ {i})

\* C3: getBalance() is the sum of value over exactly the stored records whose
\* isSpent flag is false.
C3_Balance ==
  GetBalance(utxos) = SumValues(utxos, {i \in 1..Len(utxos) : ~utxos[i].isSpent})

\* An add has just stored a record next to another, one spent, one not.
C3_Witness ==
  /\ call.op = "add" /\ call.ret
  /\ Len(utxos) = 2
  /\ \E i, j \in 1..2 : utxos[i].isSpent /\ ~utxos[j].isSpent
  /\ GetBalance(utxos) > 0

\* C4: a repository that has executed loadFromSerializable(getSerializable())
\* shows the unspent records it showed before, field by field (tweak bytes
\* included) and in the same order, and the same balance.
C4_RoundTrip ==
  call.op = "reload" =>
    /\ ViewAll(GetAll(utxos)) = call.arg.unspent
    /\ GetBalance(utxos) = call.arg.balance

\* A repository filled by add, with a spent and an unspent record whose
\* tweak has a byte below 16, has been reloaded.
C4_Witness ==
  /\ call.op = "reload"
  /\ Len(utxos) = 2
  /\ Len(call.arg.unspent) = 1
  /\ call.arg.unspent[1].tweak = <<0, 171>>
  /\ call.arg.balance > 0

-----------------------------------------------------------------------------
(* Properties of the scans *)

\* The heights from `from` down to `to`, and from `from` up to `to`.
Descending(from, to) == [i \in 1..(IF from >= to THEN from - to + 1 ELSE 0) |-> from - i + 1]
Ascending(from, to) == [i \in 1..(IF to >= from THEN to - from + 1 ELSE 0) |-> from + i - 1]

Max0(n) == IF n > 0 THEN n ELSE 0

IsPrefix(p, q) == Len(p) <= Len(q) /\ p = SubSeq(q, 1, Len(p))

Ranged == pc \in {"fetching", "done"} /\ outcome # "threw"

\* C5: a backward scan with start height s (the tip or fromHeight) and
\* maxBlocks m >= 1 requests exactly s, s-1, ..., max(0, s-m+1): at every
\* moment the requests made are the first heights of that list, none is
\* negative, none is made twice whatever the responses, and the scan returns
\* when the list is exhausted.
C5_BackwardRange ==
  (Ranged /\ scan.kind = "backward" /\ scan.maxBlocks >= 1) =>
    LET range == Descending(scan.startHeight, Max0(scan.startHeight - scan.maxBlocks + 1))
    IN  /\ IsPrefix(requested, range)
        /\ pc = "done" => requested = range
        /\ \A i \in 1..Len(requested) : requested[i] >= 0
        /\ \A i, j \in 1..Len(requested) : i < j => requested[i] > requested[j]

\* A backward scan from the tip 3 with maxBlocks 2 has returned after asking
\* for two heights, the second of them answered 429.
C5_Witness ==
  /\ pc = "done" /\ scan.kind = "backward"
  /\ scan.startHeight = 3 /\ scan.maxBlocks = 2
  /\ requested = <<3, 2>>
  /\ skipped = <<2>> /\ lastResp = "http429"

\* C6: after a 429 for height h the next request is for h again, and the scan
\* does not end on an unanswered 429.
C6_RetrySameHeightOn429 ==
  /\ (pc = "fetching" /\ lastResp = "http429") =>
       requested[Len(requested)] = requested[Len(requested) - 1]
  /\ pc = "done" => lastResp # "http429"

TransportFailures == {"http500", "timeout", "badJson"}

\* The heights of the resolved range, in visit order.
ScanRange ==
  IF scan.kind = "forward" THEN Ascending(scan.startHeight, scan.endHeight)
  ELSE Descending(scan.startHeight, scan.endHeight)

\* C8: a failed fetch (non-2xx other than 429, timeout, malformed JSON) is
\* logged and skipped: the next request is for the next height and not the
\* failed one again, a scan that has logged failures still asks for every
\* height of its range once, and it returns instead of throwing.
C8_FailedHeightSkipped ==
  /\ (pc = "fetching" /\ lastResp \in TransportFailures) =>
       /\ requested[Len(requested)] = requested[Len(requested) - 1] + Increment(scan.kind)
       /\ skipped[Len(skipped)] = requested[Len(requested) - 1]
  /\ (pc = "done" /\ lastResp \in TransportFailures) => outcome = "returned"
  /\ (pc = "done" /\ (requested # <<>> \/ outcome = "returned")) =>
       /\ outcome = "returned"
       /\ requested = ScanRange
  /\ \A i \in 1..Len(skipped) :
       Cardinality({j \in 1..Len(requested) : requested[j] = skipped[i]}) = 1

\* The fetch of height 2, the second of a scan, has timed out: the height is
\* logged and height 1 is asked for.
C8_Witness ==
  /\ pc = "fetching"
  /\ requested = <<3, 2, 1>>
  /\ skipped = <<2>>
  /\ lastResp = "timeout"
  /\ HasOutpoint(utxos, TxId(3, 2), 0)
  /\ ~HasOutpoint(utxos, TxId(2, 2), 0)

\* C9: lastScannedBlock never decreases over backward scans, forward scans and
\* the processing of their blocks.
C9_ProgressMonotone == [][lastScannedBlock' >= lastScannedBlock]_vars

\* Block 2 has been processed by a backward scan after block 3, and the
\* progress stays at 3.
C9_Witness ==
  /\ lastScannedBlock = 3
  /\ scan.kind = "backward" /\ scan.height = 1 /\ lastResp = "ok"
  /\ HasOutpoint(utxos, TxId(2, 2), 0)

\* The outputs of block h that are the wallet's: the owned outputs of its
\* transactions that carry a 33-byte scan tweak.
MatchesByHeight ==
  [h \in Heights |->
     UNION { { <<Chain(h)[t].id, Chain(h)[t].outputs[o].vout>> :
                 o \in {x \in 1..Len(Chain(h)[t].outputs) :
                          OwnedKey(Chain(h)[t].outputs[x].pubKey)} } :
             t \in {x \in 1..Len(Chain(h)) : Len(Chain(h)[x].scanTweak) = 66} }]

BlockMatches(h) == MatchesByHeight[h]

\* C10: whenever lastScannedBlock stands at a processed height h, every match
\* of every transaction of block h is in the repository.
C10_ProgressAfterCommit ==
  lastScannedBlock > 0 =>
    \A m \in BlockMatches(lastScannedBlock) : HasOutpoint(utxos, m[1], m[2])

\* The progress stands at block 3, whose payment has two matched outputs.
C10_Witness ==
  /\ lastScannedBlock = 3
  /\ Cardinality(BlockMatches(3)) = 2
  /\ HasOutpoint(utxos, TxId(3, 2), 1)

-----------------------------------------------------------------------------
(* Properties of the scan-tweak script *)

\* C7: retries after rate-limit responses are bounded: a scan whose indexer
\* answers 429 to every request for one height gives that height up after
\* finitely many attempts and completes.
C7_RateLimitedScanCompletes == <>(script.pc = "done")

-----------------------------------------------------------------------------
(* Properties of the per-block processing *)

\* C11: when the fetch of height h succeeds, whether or not the block carries
\* transactions, ScanProgress after the block is max(previous ScanProgress, h).
C11_ProgressAfterFetch ==
  [][(pc = "fetching" /\ lastResp' = "ok" /\ scan'.height # scan.height) =>
       lastScannedBlock' = (IF scan.height > lastScannedBlock THEN scan.height
                            ELSE lastScannedBlock)]_vars

\* C12: a scan invocation has at most one fetch in flight, and when it asks
\* for the next height the handler for the previous height's transactions has
\* completed: they are processed, their matches are in the repository and
\* ScanProgress is not below that height.
C12_OneFetchCommittedFirst ==
  /\ Cardinality(inFlight) <= 1
  /\ pc = "fetching" => inFlight = {requested[Len(requested)]}
  /\ pc \in {"idle", "resolving", "done"} => inFlight = {}
  /\ (pc = "fetching" /\ lastResp = "ok" /\ Len(requested) >= 2) =>
       LET h == requested[Len(requested) - 1]
       IN  Len(Chain(h)) > 0 =>
             /\ handled.height = h
             /\ \A m \in BlockMatches(h) : HasOutpoint(utxos, m[1], m[2])
             /\ lastScannedBlock >= h

\* Height 2 is in flight after block 3, whose payment has two matches, has been
\* handled.
C12_Witness ==
  /\ pc = "fetching" /\ scan.kind = "backward"
  /\ requested = <<3, 2>> /\ inFlight = {2}
  /\ lastResp = "ok"
  /\ handled.height = 3 /\ Len(handled.added) = 2
  /\ lastScannedBlock = 3

\* C14: a forward scan with start height a and end height b (given, or the
\* indexer's latest height) requests exactly a, a+1, ..., b: at every moment
\* the requests made are the first heights of that list, in strictly
\* ascending order, each once; the scan returns when the list is exhausted,
\* and it requests nothing when a > b.
C14_ForwardRange ==
  (Ranged /\ scan.kind = "forward") =>
    LET range == Ascending(scan.startHeight, scan.endHeight)
    IN  /\ IsPrefix(requested, range)
        /\ pc = "done" => requested = range
        /\ \A i, j \in 1..Len(requested) : i < j => requested[i] < requested[j]
        /\ scan.startHeight > scan.endHeight => requested = <<>>

\* A forward scan from 2 to 4 has returned after asking for three heights, the
\* second of which failed.
C14_Witness ==
  /\ pc = "done" /\ scan.kind = "forward" /\ outcome = "returned"
  /\ scan.startHeight = 2 /\ scan.endHeight = 4
  /\ requested = <<2, 3, 4>>
  /\ skipped = <<3>>

\* The transactions of `txs` that carry a scan tweak and at least one output.
WithTweakAndOutputs(txs) ==
  SelectSeq(txs, LAMBDA tx : Len(tx.scanTweak) > 0 /\ Len(tx.outputs) > 0)

RECURSIVE MatchesOf(_, _)
\* What process() returns for the transactions of `txs`, one after the other.
MatchesOf(txs, blockHeight) ==
  IF txs = <<>> THEN <<>>
  ELSE Process(ToIndexerTransaction(Head(txs), blockHeight))
         \o MatchesOf(Tail(txs), blockHeight)

\* C15: of a fetched block, the transactions with a non-empty scan tweak and
\* at least one output are passed to process() once each, every match
\* returned is passed to add(), and a transaction with an empty scan tweak or
\* no outputs is not processed and has no record in the repository.
C15_ScannableProcessedOnce ==
  handled.height >= 0 =>
    LET txs == Chain(handled.height)
        scannable == WithTweakAndOutputs(txs)
    IN  /\ handled.processed = [i \in 1..Len(scannable) |-> scannable[i].id]
        /\ handled.added = MatchesOf(scannable, handled.height)
        /\ \A i \in 1..Len(handled.added) :
             HasOutpoint(utxos, handled.added[i].txid, handled.added[i].vout)
        /\ \A t \in 1..Len(txs) :
             (Len(txs[t].scanTweak) = 0 \/ Len(txs[t].outputs) = 0) =>
               \A i \in 1..Len(utxos) : utxos[i].txid # txs[t].id

\* Block 2 has been handled: its first transaction has no scan tweak, its
\* second is a payment to the wallet.
C15_Witness ==
  /\ handled.height = 2
  /\ handled.processed = <<TxId(2, 2)>>
  /\ Len(handled.added) = 1
  /\ HasOutpoint(utxos, TxId(2, 2), 0)
  /\ ~HasOutpoint(utxos, TxId(2, 1), 0)

-----------------------------------------------------------------------------
(* Properties of TransactionProcessor.process *)

\* The output keys the matching primitive reports for the transaction.
MatchedKeys(tx) ==
  LET entries == ScanOutputsWithTweak(OutputPubKeys(tx))
  IN  {Tail(entries[i].key) : i \in 1..Len(entries)}

\* The primitive was called for the transaction and returned.
PrimitiveReturned ==
  processCall.pc = "returned" /\ processCall.called /\ processCall.logged = "none"

\* C16: process emits one record for every output whose key the primitive
\* reports as matched, and it carries the transaction's txid and block
\* height and hash, that output's vout, value, pubKey and isSpent, and the
\* tweak of the key; also when two outputs carry the same pubKey.
C16_OneRecordPerMatchedOutput ==
  PrimitiveReturned =>
    LET tx == processCall.tx
    IN  \A k \in 1..Len(tx.outputs) :
          tx.outputs[k].pubKey \in MatchedKeys(tx) =>
            Cardinality({i \in 1..Len(processCall.matched) :
              processCall.matched[i] =
                MkUTXO(tx.txid, tx.outputs[k].vout, tx.outputs[k].value,
                       tx.outputs[k].pubKey, tx.blockHeight, tx.blockHash,
                       OutputTweak(tx.outputs[k].pubKey), tx.outputs[k].isSpent)}) = 1

\* C17: every record process emits is for an output of the transaction whose
\* key is in the matched set; when the primitive reports no match the result
\* is the empty list; process does not throw.
C17_OnlyMatchedOutputs ==
  processCall.pc = "returned" =>
    LET tx == processCall.tx
    IN  /\ ~processCall.threw
        /\ \A i \in 1..Len(processCall.matched) :
             /\ processCall.called
             /\ processCall.matched[i].pubKey \in MatchedKeys(tx)
             /\ \E k \in 1..Len(tx.outputs) :
                  /\ tx.outputs[k].pubKey = processCall.matched[i].pubKey
                  /\ tx.outputs[k].vout = processCall.matched[i].vout
        /\ (PrimitiveReturned /\ MatchedKeys(tx) = {}) => processCall.matched = <<>>

\* process has returned one record for a transaction with an output of the
\* wallet and an output of another wallet.
C17_Witness ==
  /\ PrimitiveReturned
  /\ Len(processCall.tx.outputs) = 2
  /\ processCall.tx.outputs[1].pubKey = PubKeyOf(TxId(3, 2), 2)
  /\ processCall.tx.outputs[2].pubKey = PubKeyOf(TxId(3, 2), 0)
  /\ Len(processCall.matched) = 1
  /\ processCall.matched[1].vout = 1

\* C18: when the scan tweak does not decode to exactly 33 bytes, process
\* returns the empty list, does not call the matching primitive and does not
\* throw.
C18_BadTweakLength ==
  (processCall.pc = "returned" /\ Len(FromHex(processCall.tx.scanTweak)) # 33) =>
    /\ processCall.matched = <<>>
    /\ ~processCall.called
    /\ ~processCall.threw

\* process has returned for a scan tweak of 66 characters, one of them not
\* hex, on a transaction with an output of the wallet.
C18_Witness ==
  /\ processCall.pc = "returned"
  /\ Len(processCall.tx.scanTweak) = 66
  /\ Len(FromHex(processCall.tx.scanTweak)) = 2
  /\ Len(processCall.tx.outputs) = 1
  /\ processCall.tx.outputs[1].pubKey = PubKeyOf(TxId(3, 2), 0)
  /\ processCall.logged = "warn"

-----------------------------------------------------------------------------
(* Properties of the scans: errors of the matching primitive *)

\* C19: when the matching primitive throws for a transaction of a block,
\* process returns the empty list for it, the block's later transactions are
\* processed and their matches committed, ScanProgress reaches the block, the
\* height is not logged as failed and the scan goes on to the next height.
C19_PrimitiveErrorContained ==
  handled.height >= 0 =>
    LET h == handled.height
        txs == Chain(h)
    IN  \A t \in 1..Len(txs) :
          (Len(txs[t].scanTweak) = 66 /\ Len(txs[t].outputs) > 0
             /\ Throws(OutputPubKeys(txs[t]))) =>
            /\ \E i \in 1..Len(handled.processed) : handled.processed[i] = txs[t].id
            /\ Process(ToIndexerTransaction(txs[t], h)) = <<>>
            /\ \A i \in 1..Len(utxos) : utxos[i].txid # txs[t].id
            /\ \A u \in (t + 1)..Len(txs) :
                 (Len(txs[u].scanTweak) > 0 /\ Len(txs[u].outputs) > 0) =>
                   /\ \E i \in 1..Len(handled.processed) : handled.processed[i] = txs[u].id
                   /\ \A i \in 1..Len(Process(ToIndexerTransaction(txs[u], h))) :
                        HasOutpoint(utxos, txs[u].id,
                                    Process(ToIndexerTransaction(txs[u], h))[i].vout)
            /\ lastScannedBlock >= h
            /\ \A i \in 1..Len(skipped) : skipped[i] # h
            /\ outcome # "threw"
            /\ (pc = "fetching" /\ lastResp = "ok" /\ Len(requested) >= 2
                  /\ requested[Len(requested) - 1] = h) =>
                 requested[Len(requested)] = h + Increment(scan.kind)

\* Block 3, whose second transaction makes the primitive throw, has been
\* handled: the payment after it is committed and height 2 is asked for.
C19_Witness ==
  /\ pc = "fetching" /\ scan.kind = "backward"
  /\ requested = <<3, 2>> /\ lastResp = "ok"
  /\ handled.height = 3
  /\ handled.processed = <<TxId(3, 1), TxId(3, 3), TxId(3, 2)>>
  /\ HasOutpoint(utxos, TxId(3, 2), 0) /\ HasOutpoint(utxos, TxId(3, 2), 1)
  /\ skipped = <<>>

-----------------------------------------------------------------------------
(* Properties of two scans at once *)

\* The outputs of the blocks either scan has fetched that are the wallet's.
FetchedMatches ==
  UNION {BlockMatches(h) : h \in conc.backward.fetched \cup conc.forward.fetched}

\* C13: when a backward and a forward scan run at once on one wallet and one
\* repository, under every interleaving of their fetches the repository holds
\* exactly one record per matched (txid, vout) of the blocks fetched: no
\* duplicate, no lost insertion, nothing else, in both of its lists.
C13_ConcurrentScansOneRecordEach ==
  conc.backward.pc # "idle" =>
    /\ \A i, j \in 1..Len(utxos) :
         <<utxos[i].txid, utxos[i].vout>> = <<utxos[j].txid, utxos[j].vout>> => i = j
    /\ \A m \in FetchedMatches : HasOutpoint(utxos, m[1], m[2])
    /\ \A i \in 1..Len(utxos) : <<utxos[i].txid, utxos[i].vout>> \in FetchedMatches
    /\ [i \in 1..Len(utxos) |-> ToSerializable(utxos[i])] = utxosSerializable

\* Both scans have ended. The forward scan from 2 stored block 2's payment
\* before the backward scan stored block 3's, which the forward scan failed to
\* fetch; the backward scan then fetched block 2 as well.
C13_Witness ==
  /\ conc.backward.pc = "done" /\ conc.forward.pc = "done"
  /\ conc.forward.fetched = {2, 4}
  /\ conc.backward.fetched = {4, 3, 2}
  /\ Len(utxos) = 3
  /\ utxos[1].txid = TxId(2, 2) /\ utxos[2].txid = TxId(3, 2)

-----------------------------------------------------------------------------
(* Properties of the key derivation *)

\* The value a getter gives for a seed when nothing is cached.
DerivedValue(seed, op) ==
  LET scanKey == DerivePath(FromSeed(seed), ScanPath)
      spendKey == DerivePath(FromSeed(seed), SpendPath)
  IN  CASE op = "getScanPrivateKey" -> PrivateKey(scanKey)
        [] op = "getSpendPrivateKey" -> PrivateKey(spendKey)
        [] op = "getScanPublicKey" -> PublicKey(scanKey)
        [] op = "getSpendPublicKey" -> PublicKey(spendKey)
        [] OTHER -> EncodeSilentPaymentAddress(PublicKey(scanKey), PublicKey(spendKey))

\* C20: what getSilentPaymentAddress, getScanPrivateKey, getSpendPrivateKey,
\* getScanPublicKey and getSpendPublicKey return depends on the seed alone:
\* every call returns the value derived from the instance's seed, whatever
\* getters and clear() calls came before and on whichever instance, and two
\* instances with the same seed never cache different keys or addresses.
C20_DeterministicInSeed ==
  /\ keyCall.op \notin {"none", "new", "clear"} =>
       keyCall.value = DerivedValue(keyDerivation[keyCall.instance].seed, keyCall.op)
  /\ \A i, j \in Instances :
       keyDerivation[i].seed = keyDerivation[j].seed =>
         /\ (keyDerivation[i].scanKey # <<>> /\ keyDerivation[j].scanKey # <<>>) =>
              /\ keyDerivation[i].scanKey = keyDerivation[j].scanKey
              /\ keyDerivation[i].spendKey = keyDerivation[j].spendKey
         /\ (keyDerivation[i].silentPaymentAddress # <<>>
               /\ keyDerivation[j].silentPaymentAddress # <<>>) =>
              keyDerivation[i].silentPaymentAddress = keyDerivation[j].silentPaymentAddress

\* Instance b has returned the address of seed 1 while instance a, created
\* from the same seed, holds its keys and no cached address.
C20_Witness ==
  /\ keyCall.op = "getSilentPaymentAddress" /\ keyCall.instance = "b"
  /\ keyDerivation["a"].seed = 1 /\ keyDerivation["b"].seed = 1
  /\ keyDerivation["a"].scanKey # <<>>
  /\ keyDerivation["a"].silentPaymentAddress = <<>>
  /\ keyDerivation["b"].silentPaymentAddress = keyCall.value

\* C21: after clear() the instance holds no scan key, no spend key and no
\* cached address, and its seed is the one it was created with; the getter
\* called next on that instance returns the value derived from that seed and
\* leaves the keys derived from it in the instance.
C21_ClearThenRederive ==
  LET k == keyDerivation[keyCall.instance]
  IN  /\ keyCall.op = "clear" =>
           /\ k.scanKey = <<>> /\ k.spendKey = <<>> /\ k.silentPaymentAddress = <<>>
           /\ k.seed \in Seeds
      /\ (keyCall.prev = <<"clear", keyCall.instance>>
            /\ keyCall.op \notin {"none", "new", "clear"}) =>
           /\ keyCall.value = DerivedValue(k.seed, keyCall.op)
           /\ k.scanKey = DerivePath(FromSeed(k.seed), ScanPath)
           /\ k.spendKey = DerivePath(FromSeed(k.seed), SpendPath)
           /\ k.silentPaymentAddress # <<>> =>
                k.silentPaymentAddress = DerivedValue(k.seed, "getSilentPaymentAddress")

\* getSilentPaymentAddress() has been called on instance a right after its
\* clear() and the address is cached again.
C21_Witness ==
  /\ keyCall.op = "getSilentPaymentAddress" /\ keyCall.instance = "a"
  /\ keyCall.prev = <<"clear", "a">>
  /\ keyDerivation["a"].seed = 2
  /\ keyDerivation["a"].silentPaymentAddress = keyCall.value
  /\ keyCall.value # <<>>

-----------------------------------------------------------------------------
(* Properties of the configuration errors *)

\* C22: a wallet scan started while the default indexer is null ends at once
\* with the error thrown to the caller; it sends no request, neither then nor
\* before the caller has its error, and leaves the stored records and
\* lastScannedBlock as they were.
C22_NoIndexerFailsAtOnce ==
  [][ /\ (pc = "idle" /\ ~defaultIndexer /\ pc' # "idle") =>
           /\ pc' = "done" /\ outcome' = "threw"
           /\ scan'.error = "notInitialized"
           /\ requested' = <<>> /\ inFlight' = inFlight
           /\ utxos' = utxos /\ utxosSerializable' = utxosSerializable
           /\ lastScannedBlock' = lastScannedBlock
      /\ (pc = "done" /\ scan.error = "notInitialized") =>
           /\ requested' = <<>> /\ inFlight' = inFlight
           /\ utxos' = utxos /\ lastScannedBlock' = lastScannedBlock
    ]_vars

\* A scan has failed for want of an indexer in a wallet that holds records
\* and progress from a scan before resetIndexer().
C22_Witness ==
  /\ pc = "done" /\ outcome = "threw" /\ scan.error = "notInitialized"
  /\ ~defaultIndexer
  /\ Len(utxos) = 1 /\ lastScannedBlock = 1
  /\ requested = <<>>

\* C23: with a malformed seed a scan that has handed a transaction to
\* process() ends with an error thrown to the caller.
C23_MalformedSeedFailsScan ==
  (cachedSeed = "malformed" /\ pc = "done" /\ handled.processed # <<>>) =>
    outcome = "threw"

\* C24: a scan throws to its caller only for a configuration error; an error
\* of the transport, the lookup of the tip included, never makes it throw.
C24_OnlyConfigurationErrorsFail ==
  outcome = "threw" => scan.error = "notInitialized"

-----------------------------------------------------------------------------
(* Properties of a scan's result *)

\* The positions of the records inserted since the scan started.
InsertedDuringScan == (scan.initialLength + 1)..Len(utxos)

WalletScanReturned == pc = "done" /\ outcome = "returned"

\* C25 as stated: the number a wallet scan returns is the number of records
\* inserted during the scan.
C25_ResultCountsInserted ==
  WalletScanReturned => scan.result = Cardinality(InsertedDuringScan)

\* C25, amended: the number a wallet scan returns is the number of records
\* inserted during the scan that are unspent, also when heights of the range
\* failed.
C25_ResultCountsNewUnspent ==
  WalletScanReturned =>
    scan.result = Cardinality({i \in InsertedDuringScan : ~utxos[i].isSpent})

\* A wallet that held records has scanned a range of which a height failed
\* and has inserted unspent records and a spent one.
C25_Witness ==
  /\ WalletScanReturned
  /\ skipped # <<>>
  /\ scan.initialLength > 0
  /\ scan.result > 0
  /\ Cardinality(InsertedDuringScan) > scan.result

-----------------------------------------------------------------------------
(* Properties of the streaming scan *)

\* C26: once the handler of a streaming scan has asked to stop or has failed
\* on a block, that scan requests no further height.
C26_NoRequestAfterStop ==
  \A k \in 1..Len(stream.batches) :
    stream.batches[k].outcome # "ok" =>
      Len(stream.requested) = stream.batches[k].at

RECURSIVE Concat(_)
Concat(batches) ==
  IF batches = <<>> THEN <<>>
  ELSE Head(batches).transactions \o Concat(Tail(batches))

\* C27: over one range and one set of answers the handler of the callback
\* form is given, block by block in the order of the visit and each block
\* before the next height is requested, the transactions the bulk form
\* returns: at every moment the batches delivered are a prefix of the bulk
\* list, and at the end they are the whole of it.
C27_BatchesEqualBulk ==
  stream.pc \in {"callback", "done"} =>
    /\ IsPrefix(Concat(stream.batches), stream.allTransactions)
    /\ stream.pc = "done" => Concat(stream.batches) = stream.allTransactions
    /\ \A k \in 1..Len(stream.batches) :
         /\ stream.batches[k].at \in 1..Len(stream.requested)
         /\ stream.requested[stream.batches[k].at] = stream.batches[k].height
         /\ k > 1 => stream.batches[k].height < stream.batches[k - 1].height

\* Heights 3, 2 and 1 were scanned in both forms with the fetch of 2 failing:
\* the handler was given the blocks 3 and 1.
C27_Witness ==
  /\ stream.pc = "done"
  /\ stream.requested = <<3, 2, 1>>
  /\ stream.served[2] = "throw"
  /\ Len(stream.batches) = 2
  /\ stream.batches[1].height = 3 /\ stream.batches[2].height = 1
  /\ Len(stream.allTransactions) = 6

\* The records stored when the scan started.
StoredAtStart == SubSeq(utxos, 1, scan.initialLength)

\* Every match of every height the scan has asked for was stored when the
\* scan started: the range has been scanned before.
RangeAlreadyStored ==
  \A k \in 1..Len(requested) :
    \A m \in BlockMatches(requested[k]) : HasOutpoint(StoredAtStart, m[1], m[2])

-----------------------------------------------------------------------------
(* Properties of the repository: spent flags and stored records *)

\* The list without its element at position k.
RemoveAt(list, k) == SubSeq(list, 1, k - 1) \o SubSeq(list, k + 1, Len(list))

\* C29: after a reload from the serialized set in which the isSpent flag of
\* one unspent entry was set to true, getAll() is what it was without that
\* entry, getBalance() is what it was less the entry's value, and the entry is
\* still in the store and in getSerializable(), marked spent.
C29_ReloadMarksSpent ==
  call.op = "reloadSpent" =>
    LET i == call.n
        k == Cardinality({j \in 1..i : j = i \/ ~utxos[j].isSpent})
    IN  /\ ViewAll(GetAll(utxos)) = RemoveAt(call.arg.unspent, k)
        /\ GetBalance(utxos) = call.arg.balance - call.arg.entry.value
        /\ Len(utxos) = call.arg.length
        /\ Len(GetSerializable(utxosSerializable)) = call.arg.length
        /\ GetSerializable(utxosSerializable)[i] = [call.arg.entry EXCEPT !.isSpent = TRUE]
        /\ utxos[i].isSpent
        /\ <<utxos[i].txid, utxos[i].vout, utxos[i].value>>
             = <<call.arg.entry.txid, call.arg.entry.vout, call.arg.entry.value>>

\* The first of two unspent records has been marked spent by a reload: one
\* record is listed and both are stored.
C29_Witness ==
  /\ call.op = "reloadSpent" /\ call.n = 1
  /\ Len(call.arg.unspent) = 2
  /\ Len(GetAll(utxos)) = 1
  /\ Len(utxos) = 2
  /\ GetBalance(utxos) = 1000 /\ call.arg.balance = 2000

\* C30: an add of a record whose (txid, vout) is stored returns false and
\* leaves both lists as they are, whatever the other fields of the incoming
\* record; and every call other than loadFromSerializable and clear leaves
\* every stored record as it is, at its place.
C30_StoredRecordsKept ==
  [][ /\ (call'.op = "add" /\ HasOutpoint(utxos, call'.arg.txid, call'.arg.vout)) =>
           /\ ~call'.ret
           /\ utxos' = utxos
           /\ utxosSerializable' = utxosSerializable
      /\ call'.op \in {"add", "getAll", "getBalance", "getSerializable"} =>
           /\ IsPrefix(utxos, utxos')
           /\ IsPrefix(utxosSerializable, utxosSerializable')
    ]_vars

\* An add of a record has returned false while the stored record of its
\* (txid, vout) has another value, another tweak and another spent flag.
C30_Witness ==
  /\ call.op = "add" /\ ~call.ret
  /\ \E i \in 1..Len(utxos) :
       /\ utxos[i].txid = call.arg.txid /\ utxos[i].vout = call.arg.vout
       /\ utxos[i].value # call.arg.value
       /\ utxos[i].isSpent # call.arg.isSpent
       /\ utxos[i].tweak # call.arg.tweak
       /\ utxosSerializable[i].value = utxos[i].value

-----------------------------------------------------------------------------
(* Properties of the repository: listing, clearing, the two lists *)

\* The position in the list of its k-th unspent record.
UnspentIndex(us, k) ==
  CHOOSE i \in 1..Len(us) :
    ~us[i].isSpent /\ Cardinality({j \in 1..i : ~us[j].isSpent}) = k

\* C31: getAll() returns the stored records whose isSpent flag is false, each
\* once and in the order of the store; an add that inserts an unspent record
\* puts it last in that order and any other add leaves the listing as it was;
\* and a getAll() that follows a getAll() returns the same sequence.
C31_GetAllUnspentInOrder ==
  [][ /\ call'.op = "getAll" =>
           /\ Len(call'.arg) = Cardinality({i \in 1..Len(utxos) : ~utxos[i].isSpent})
           /\ \A k \in 1..Len(call'.arg) :
                call'.arg[k] = View(utxos[UnspentIndex(utxos, k)])
      /\ call'.op = "add" =>
           ViewAll(GetAll(utxos')) =
             IF call'.ret /\ ~call'.arg.isSpent
               THEN Append(ViewAll(GetAll(utxos)), View(call'.arg))
               ELSE ViewAll(GetAll(utxos))
      /\ (call.op = "getAll" /\ call'.op = "getAll") => call'.arg = call.arg
    ]_vars

\* getAll() has been called on a store of a spent record followed by an
\* unspent one, and returned the second alone.
C31_Witness ==
  /\ call.op = "getAll"
  /\ Len(utxos) = 2 /\ utxos[1].isSpent /\ ~utxos[2].isSpent
  /\ call.arg = <<View(utxos[2])>>

\* C32: after clear() getAll() and getSerializable() are empty and
\* getBalance() is 0, and the add that follows it of a record whose
\* (txid, vout) was stored before returns true and stores the record.
C32_ClearEmpties ==
  /\ call.op = "clear" =>
       /\ GetAll(utxos) = <<>>
       /\ GetSerializable(utxosSerializable) = <<>>
       /\ GetBalance(utxos) = 0
  /\ (call.op = "add" /\ call.readded) =>
       /\ call.ret
       /\ utxos = <<call.arg>>
       /\ utxosSerializable = <<ToSerializable(call.arg)>>

\* A record that was stored, with another, before a clear() has been added
\* again and is the only record stored.
C32_Witness ==
  /\ call.op = "add" /\ call.readded /\ call.ret
  /\ Len(utxos) = 1 /\ GetBalance(utxos) = 1000

-----------------------------------------------------------------------------
(* Properties of the scan progress as a resume point *)

\* C34: when a scan has returned with ScanProgress = p, every height of its
\* range that is <= p was fetched successfully and has all its matches in the
\* repository (a progress of 0 is that of a wallet that has scanned nothing).
C34_ProgressIsResumePoint ==
  (pc = "done" /\ outcome = "returned" /\ lastScannedBlock > 0) =>
    \A i \in 1..Len(ScanRange) :
      ScanRange[i] <= lastScannedBlock =>
        /\ \A j \in 1..Len(skipped) : skipped[j] # ScanRange[i]
        /\ \A m \in BlockMatches(ScanRange[i]) : HasOutpoint(utxos, m[1], m[2])

-----------------------------------------------------------------------------
(* Properties of the scan direction *)

\* The records of a list, as a set.
RecordSet(list) == {list[i] : i \in 1..Len(list)}

\* C35: when two wallets of one seed that held equal repositories have
\* scanned the same range of the same chain with no fetch failing, one
\* backward and one forward, they hold the same set of records, as many
\* records, the same serializable set, the same balance and the same
\* lastScannedBlock.
C35_DirectionIndependent ==
  (twin.backward.pc = "done" /\ twin.forward.pc = "done") =>
    /\ RecordSet(ViewAll(twin.backward.u)) = RecordSet(ViewAll(twin.forward.u))
    /\ Len(twin.backward.u) = Len(twin.forward.u)
    /\ RecordSet(twin.backward.s) = RecordSet(twin.forward.s)
    /\ GetBalance(twin.backward.u) = GetBalance(twin.forward.u)
    /\ twin.backward.last = twin.forward.last

\* Both wallets have scanned the heights 1 to 3 and hold the payments of the
\* three blocks, in opposite orders.
C35_Witness ==
  /\ twin.backward.pc = "done" /\ twin.forward.pc = "done"
  /\ twin.backward.endHeight = 1 /\ twin.forward.endHeight = 3
  /\ Len(twin.backward.u) >= 3
  /\ twin.backward.u # twin.forward.u
  /\ twin.backward.u[1].blockHeight = 3 /\ twin.forward.u[1].blockHeight = 1
  /\ twin.backward.last = 3

-----------------------------------------------------------------------------
(* Properties of the key cache *)

\* C36: between its construction or last clear() and its next clear() an
\* instance derives its keys from the seed at most once, however many getters
\* are called on it: the derivation has run exactly when the keys are cached;
\* and the scan key and the spend key are both cached or both absent.
C36_DerivedAtMostOnce ==
  \A i \in Instances :
    /\ keyDerivation[i].derivations <= 1
    /\ keyDerivation[i].derivations = 1 <=> keyDerivation[i].scanKey # <<>>
    /\ keyDerivation[i].scanKey = <<>> <=> keyDerivation[i].spendKey = <<>>

\* Two getters have been called in a row on instance a, the second the
\* address getter, and the derivation has run once.
C36_Witness ==
  /\ keyCall.op = "getSilentPaymentAddress" /\ keyCall.instance = "a"
  /\ keyCall.prev = <<"getSpendPublicKey", "a">>
  /\ keyDerivation["a"].derivations = 1
  /\ keyDerivation["a"].silentPaymentAddress = keyCall.value

-----------------------------------------------------------------------------
(* Properties of the composed wallet against the legacy one *)

\* C37: for one mnemonic and one sequence of key getters, address getters and
\* clearCache() calls, the legacy wallet and the composed wallet return the
\* same value at every call: the key or the address derived from the seed of
\* the mnemonic.
C37_SameKeysAsLegacy ==
  /\ compat.last.legacy = compat.last.wallet
  /\ compat.last.op \in KeyOps =>
       compat.last.wallet =
         DerivedValue(MnemonicToSeedSync(compat.wallet.secret), compat.last.op)
  /\ compat.legacy.secret = compat.wallet.secret

\* Both wallets, created from the second mnemonic, have returned the scan
\* private key right after a clearCache().
C37_Witness ==
  /\ compat.last.op = "getScanPrivateKey" /\ compat.last.prev = "clearCache"
  /\ compat.wallet.secret = <<"mnemonic", 2>>
  /\ compat.last.legacy = PrivateKey(DerivePath(FromSeed(2), ScanPath))
  /\ compat.last.wallet = compat.last.legacy
  /\ compat.legacy.silentPaymentAddress = <<>>

\* The fields the runtime record and the serializable entry have in common
\* are equal.
SameBase(u, e) == \A f \in BaseFields : u[f] = e[f]

\* Lower-case hex of even length, as the encoder writes it.
LowerCaseHex(hex) ==
  /\ Len(hex) % 2 = 0
  /\ \A i \in 1..Len(hex) : \E d \in 1..16 : HexDigits[d] = hex[i]

\* C38 as stated: the two lists have the same length and, position by
\* position, the same base fields, and every tweakHex is the hex encoding of
\* the runtime tweak.
C38_ListsInStepEncoded ==
  /\ Len(utxos) = Len(utxosSerializable)
  /\ \A i \in 1..Len(utxos) :
       /\ SameBase(utxos[i], utxosSerializable[i])
       /\ utxosSerializable[i].tweakHex = ToHex(utxos[i].tweak)

\* C38, amended: the two lists have the same length and, position by
\* position, the same base fields, and every runtime tweak is the bytes its
\* tweakHex decodes to; tweakHex is the hex encoding of the runtime tweak in
\* the entry add() has just written and wherever it is lower-case hex of even
\* length.
C38_ListsInStep ==
  /\ Len(utxos) = Len(utxosSerializable)
  /\ \A i \in 1..Len(utxos) :
       /\ SameBase(utxos[i], utxosSerializable[i])
       /\ utxos[i].tweak = FromHex(utxosSerializable[i].tweakHex)
       /\ LowerCaseHex(utxosSerializable[i].tweakHex) =>
            utxosSerializable[i].tweakHex = ToHex(utxos[i].tweak)
  /\ (call.op = "add" /\ call.ret) =>
       /\ View(utxos[Len(utxos)]) = View(call.arg)
       /\ utxosSerializable[Len(utxos)].tweakHex = ToHex(call.arg.tweak)

\* A record has been added after a load of the upper-case entry: two records
\* are stored, the first with the tweak its upper-case tweakHex decodes to.
C38_Witness ==
  /\ call.op = "add" /\ call.ret
  /\ Len(utxos) = 2
  /\ utxosSerializable[1].tweakHex = <<"F", "F", "1", "0">>
  /\ utxos[1].tweak = <<255, 16>>
  /\ utxosSerializable[2].tweakHex = <<"0", "0", "a", "b">>

-----------------------------------------------------------------------------
(* Properties of the wallet's persistence *)

\* C39: a wallet restored by fromJson from the JSON of a wallet on which
\* prepareForSerialization was called has the getUTXOs(), getBalance() and
\* getLastScannedBlock() of the original, its key getters return the keys and
\* the address of the mnemonic, and its scans commit the matches of the
\* blocks they are given.
C39_RestoredWalletWorks ==
  persist.restored.w.secret # <<>> =>
    /\ persist.last.op = "fromJson" =>
         /\ ViewAll(GetAll(persist.restored.u)) = ViewAll(GetAll(persist.original.u))
         /\ GetBalance(persist.restored.u) = GetBalance(persist.original.u)
         /\ persist.restored.lastScannedBlock = persist.original.lastScannedBlock
    /\ persist.last.op \in KeyOps =>
         persist.last.value =
           DerivedValue(MnemonicToSeedSync(persist.restored.w.secret), persist.last.op)
    /\ persist.last.op = "scan" =>
         /\ persist.last.value # TypeError
         /\ \A m \in BlockMatches(persist.last.height) :
              HasOutpoint(persist.restored.u, m[1], m[2])

-----------------------------------------------------------------------------
(* Properties of the default indexer's lifecycle *)

\* The position in the log of the last initializeIndexer or resetIndexer
\* call, 0 when there is none.
LastLifecycle(log) ==
  LET at == {i \in 1..Len(log) : log[i].op \in {"initializeIndexer", "resetIndexer"}}
  IN IF at = {} THEN 0 ELSE CHOOSE i \in at : \A j \in at : j <= i

\* initializeIndexer has been called and resetIndexer has not been called since.
InitializedAndNotReset(log) ==
  /\ LastLifecycle(log) > 0
  /\ log[LastLifecycle(log)].op = "initializeIndexer"

\* C40: in every sequence of initializeIndexer, resetIndexer,
\* isIndexerInitialized and getDefaultIndexer calls, isIndexerInitialized()
\* is true exactly when initializeIndexer has been called with no resetIndexer
\* after it, and getDefaultIndexer() then returns the instance the most
\* recent initializeIndexer made, and throws otherwise.
C40_IndexerLifecycle ==
  /\ IsIndexerInitialized(registry) = InitializedAndNotReset(registry.log)
  /\ registry.last.op = "isIndexerInitialized" =>
       registry.last.value = InitializedAndNotReset(registry.log)
  /\ registry.last.op = "getDefaultIndexer" =>
       IF InitializedAndNotReset(registry.log)
       THEN registry.last.value =
              [threw |-> FALSE,
               instance |-> [id |-> LastLifecycle(registry.log),
                             config |-> registry.log[LastLifecycle(registry.log)].config]]
       ELSE registry.last.value = NotInitializedError

\* getDefaultIndexer() has returned the instance of a second initializeIndexer,
\* made with another configuration than the first.
C40_Witness ==
  /\ registry.last.op = "getDefaultIndexer"
  /\ ~registry.last.value.threw
  /\ \E i \in 1..Len(registry.log) :
       /\ registry.log[i].op = "initializeIndexer"
       /\ i < registry.last.value.instance.id
       /\ registry.log[i].config # registry.last.value.instance.config

====
